---- MODULE Spec2Model ----
(***************************************************************************)
(* Chain planner of aa-reactions (aareactions/helper.py and the planning   *)
(* part of InputView.post in aareactions/views.py).                        *)
(*                                                                         *)
(* One behaviour is one planning request: Init draws the recipe catalog,   *)
(* the initial ledger and the settings; the actions walk through           *)
(* InputView.post: initial plans, priced plans, root selection, then per   *)
(* goal plan the feeders, the root step, the self-loop guard, the second   *)
(* step, the deep hops and the emission of the chain, and last the sort.   *)
(*                                                                         *)
(* Quantities are integers.  Money is an integer number of 1/100000 ISK    *)
(* (prices are whole ISK, percentages are thousandths of a percent), so    *)
(* the Decimal arithmetic of the program is exact in the model.            *)
(***************************************************************************)
EXTENDS Integers, Sequences, FiniteSets, TLC

\* ------------------------------------------------------------------ bounds
\* largest number of recipes in a drawn catalog
MaxCatalog == 3
\* largest number of never-runnable recipes put in front of a large catalog
MaxAbandoned == 1

\* ------------------------------------------------------- program constants
\* views.py:720  virtual_limit = 50
virtual_limit == 50
\* views.py:858  while depth < 4
max_depth == 4
\* helper.py:433 / views.py:729  max_count=2
max_count == 2
\* views.py:270  scc_pct = Decimal("4.00"), in thousandths of a percent
scc_pct == 4000

\* ------------------------------------------------------------ arithmetic
Min2(a, b) == IF a <= b THEN a ELSE b
Max2(a, b) == IF a >= b THEN a ELSE b
MinOf(S) == CHOOSE x \in S : \A y \in S : x <= y
MaxOf(S) == CHOOSE x \in S : \A y \in S : x >= y
CeilDiv(a, b) == (a + b - 1) \div b

RECURSIVE SumOver(_, _)
\* sum of f[x] for x in S
SumOver(f, S) ==
  IF S = {} THEN 0
  ELSE LET x == CHOOSE y \in S : TRUE IN f[x] + SumOver(f, S \ {x})

RECURSIVE SumSeq(_)
SumSeq(s) == IF s = << >> THEN 0 ELSE Head(s) + SumSeq(Tail(s))

\* the ascending sequence of a finite set of integers
SetToSeq(S) ==
  [k \in 1..Cardinality(S) |->
     CHOOSE x \in S : Cardinality({y \in S : y < x}) = k - 1]

\* Python's sorted(): stable, ascending; less[i][j] says that the key of
\* s[i] is smaller than the key of s[j]
StableSort(s, less) ==
  LET n == Len(s)
      pos == [i \in 1..n |->
                1 + Cardinality({j \in 1..n :
                      less[j][i] \/ (~less[i][j] /\ j < i)})]
  IN [k \in 1..n |-> s[CHOOSE i \in 1..n : pos[i] = k]]


\* ------------------------------------------------------------ type catalog
\* EveType rows.  A name is (prefix "Unrefined " or none) + base; fuel_block
\* says that the lower-cased name contains "fuel block".  mats are the
\* EveTypeMaterial rows <<material type, quantity per portion>>.
EveType == <<
  [unrefined_prefix |-> FALSE, base |-> "Alpha", fuel_block |-> FALSE,
   portion_size |-> 1, mats |-> {}],
  [unrefined_prefix |-> FALSE, base |-> "Beta", fuel_block |-> FALSE,
   portion_size |-> 1, mats |-> {}],
  [unrefined_prefix |-> FALSE, base |-> "Gamma", fuel_block |-> FALSE,
   portion_size |-> 1, mats |-> {}],
  [unrefined_prefix |-> TRUE, base |-> "Beta", fuel_block |-> FALSE,
   portion_size |-> 1, mats |-> {<<1, 10>>}],
  [unrefined_prefix |-> FALSE, base |-> "Helium Fuel Block", fuel_block |-> TRUE,
   portion_size |-> 1, mats |-> {}],
  [unrefined_prefix |-> FALSE, base |-> "Delta", fuel_block |-> FALSE,
   portion_size |-> 1, mats |-> {}],
  [unrefined_prefix |-> FALSE, base |-> "Ore", fuel_block |-> FALSE,
   portion_size |-> 100, mats |-> {<<1, 40>>, <<6, 3>>}],
  [unrefined_prefix |-> FALSE, base |-> "Nitrogen Fuel Block", fuel_block |-> TRUE,
   portion_size |-> 40, mats |-> {<<6, 1>>}] >>

Types == 1..Len(EveType)

Alpha == CHOOSE t \in Types : EveType[t].base = "Alpha" /\ EveType[t].unrefined_prefix = FALSE
Beta == CHOOSE t \in Types : EveType[t].base = "Beta" /\ EveType[t].unrefined_prefix = FALSE
Gamma == CHOOSE t \in Types : EveType[t].base = "Gamma" /\ EveType[t].unrefined_prefix = FALSE
UnrefinedBeta == CHOOSE t \in Types : EveType[t].base = "Beta" /\ EveType[t].unrefined_prefix = TRUE
FuelBlock == CHOOSE t \in Types : EveType[t].base = "Helium Fuel Block" /\ EveType[t].unrefined_prefix = FALSE
Delta == CHOOSE t \in Types : EveType[t].base = "Delta" /\ EveType[t].unrefined_prefix = FALSE
Ore == CHOOSE t \in Types : EveType[t].base = "Ore" /\ EveType[t].unrefined_prefix = FALSE
NitrogenFuelBlock == CHOOSE t \in Types : EveType[t].base = "Nitrogen Fuel Block" /\ EveType[t].unrefined_prefix = FALSE

\* a quantity map (dict type id -> int); 0 stands for an absent key
Qty(pairs) ==
  [t \in Types |-> IF \E p \in pairs : p[1] = t
                   THEN (CHOOSE p \in pairs : p[1] = t)[2] ELSE 0]
Empty == [t \in Types |-> 0]
Keys(m) == {t \in Types : m[t] > 0}

\* EveTypePrice rows, whole ISK
PriceRow == <<
  [buy |-> 1, sell |-> 2], [buy |-> 3, sell |-> 4], [buy |-> 20, sell |-> 25],
  [buy |-> 2, sell |-> 3], [buy |-> 1, sell |-> 1], [buy |-> 2, sell |-> 2],
  [buy |-> 1, sell |-> 1], [buy |-> 1, sell |-> 1] >>

\* ---------------------------------------------------------- helper.py
is_unrefined_name(tid) == EveType[tid].unrefined_prefix

is_fuel_id(tid) == EveType[tid].fuel_block

\* 0 stands for None
refined_partner_type_id(unrefined_tid) ==
  IF ~is_unrefined_name(unrefined_tid) THEN 0
  ELSE LET partners == {t \in Types : ~EveType[t].unrefined_prefix
                           /\ EveType[t].base = EveType[unrefined_tid].base}
       IN IF partners = {} THEN 0 ELSE MinOf(partners)

has_refined_already(plan, stock_map) ==
  \E tid \in Keys(plan.per_run_products) :
     LET rid == refined_partner_type_id(tid)
     IN rid # 0 /\ stock_map[rid] > 0

\* me_bonus_pct in thousandths of a percent
me_bonus_pct(rig_me, location) ==
  LET base == IF rig_me = "t1" THEN 2000 ELSE IF rig_me = "t2" THEN 2400 ELSE 0
      mult10 == IF location \in {"null", "wh"} THEN 11 ELSE 10
  IN (base * mult10) \div 10

\* sales_tax_pct in thousandths of a percent: 7.5 * (1 - min(0.11*level, 1))
sales_tax_pct(accounting_level) ==
  LET reduction100 == Min2(11 * accounting_level, 100)
  IN 75 * (100 - reduction100)

apply_me_floor(per_run_requirements, me_pct) ==
  [t \in Types |-> (per_run_requirements[t] * (100000 - me_pct)) \div 100000]
\* int(ceil(Decimal(base_q) * (100 - me_pct) / 100)) of every requirement
apply_me_to_requirements(per_run_requirements, me_pct) ==
  [t \in Types |-> CeilDiv(per_run_requirements[t] * (100000 - me_pct), 100000)]

\* the capacity of one requirement in plan_reactions_once (fuel gates too)
MaxRunsOnce(remaining, reqs) ==
  LET caps == {remaining[t] \div reqs[t] : t \in Keys(reqs)}
  IN IF caps = {} THEN 0 ELSE MinOf(caps)

\* runs_cap of a priced plan (views.py)
RunsCap(stock, per_run_reqs) ==
  LET caps_all == {stock[t] \div per_run_reqs[t] :
                     t \in {u \in Keys(per_run_reqs) : ~is_fuel_id(u)}}
  IN IF caps_all = {} THEN 0 ELSE MinOf(caps_all)

runcap_with_present(stock_map, reqs) ==
  LET present == {t \in Keys(reqs) : ~is_fuel_id(t) /\ stock_map[t] > 0}
      caps == {stock_map[t] \div reqs[t] : t \in present}
  IN IF present = {} THEN 0 ELSE MinOf(caps)

runcap_with_supply(stock_map, reqs, supply) ==
  IF Keys(supply) = {} THEN runcap_with_present(stock_map, reqs)
  ELSE runcap_with_present([t \in Types |-> stock_map[t] + supply[t]], reqs)

add_supply(dst, src) == [t \in Types |-> dst[t] + src[t]]

price_input(tid, price_basis) ==
  IF price_basis = "buy" THEN PriceRow[tid].buy ELSE PriceRow[tid].sell

price_output(tid, price_basis) ==
  IF price_basis = "buy" THEN PriceRow[tid].buy ELSE PriceRow[tid].sell

\* unrefined_refine_rate in percent: 50 * (1 + 0.02 * level), capped at 55
unrefined_refine_rate(smp_level) == Min2(50 + smp_level, 55)

RefineYieldUp(per_portion, qty, portion, rate_pct) ==
  CeilDiv(per_portion * qty * rate_pct, portion * 100)
\* floor(per_portion * (qty / portion) * rate), ROUND_DOWN
RefineYield(per_portion, qty, portion, rate_pct) ==
  (per_portion * qty * rate_pct) \div (portion * 100)

\* reprocess_unrefined_in_stock: the pair (add, used)
reprocess_unrefined_in_stock(produced, refine_rate) ==
  LET unref_ids == {t \in Keys(produced) : is_unrefined_name(t)}
      out_units(u, m) ==
        RefineYield(m[2], produced[u], EveType[u].portion_size, refine_rate)
      add == [t \in Types |->
                SumOver([u \in unref_ids |->
                   SumOver([m \in EveType[u].mats |->
                              IF m[1] = t /\ out_units(u, m) > 0
                              THEN out_units(u, m) ELSE 0],
                           EveType[u].mats)],
                   unref_ids)]
      used == [t \in Types |-> IF t \in unref_ids THEN produced[t] ELSE 0]
  IN [add |-> add, used |-> used]

\* refine_from_inputs, helper.py 240-251: the credits refined[mt] += produced,
\* as <<index of the item, material, produced>>; the rate of an item is the
\* unrefined rate when its name starts with "Unrefined " (rates in percent)
refine_credits(items, refine_rate, unrefined_rate) ==
  UNION {{<<i, m[1], RefineYield(m[2], items[i].quantity,
                                 EveType[items[i].tid].portion_size,
                                 IF is_unrefined_name(items[i].tid)
                                 THEN unrefined_rate ELSE refine_rate)>> :
            m \in EveType[items[i].tid].mats} :
         i \in {k \in 1..Len(items) : items[k].category = "refine"}}

\* helper.py 249-250: if produced <= 0: continue
refine_keeps(produced) == produced > 0

\* refine_from_inputs, given the credits: the dict refined (its keys and its
\* quantities)
refined_of(credits) ==
  [keys |-> {c[2] : c \in credits},
   refined |-> [t \in Types |->
                  SumOver([c \in credits |-> IF c[2] = t THEN c[3] ELSE 0], credits)]]

refine_from_inputs(items, refine_rate, unrefined_rate) ==
  refined_of({c \in refine_credits(items, refine_rate, unrefined_rate) :
                refine_keeps(c[3])})

consumes_any_of(plan, allowed_tids) ==
  \E t \in Keys(plan.per_run_requirements) :
     ~is_fuel_id(t) /\ t \in allowed_tids

produces_unrefined(plan) ==
  \E t \in Keys(plan.per_run_products) : is_unrefined_name(t)

self_recovery_loss(plan, refine_rate) ==
  LET per_run_reqs == plan.per_run_requirements
      per_run_prods == plan.per_run_products
      unref_tids == {t \in Keys(per_run_prods) : is_unrefined_name(t)}
      recovered == [t \in Types |->
                SumOver([u \in unref_tids |->
                   SumOver([m \in EveType[u].mats |->
                              IF m[1] = t
                              THEN RefineYield(m[2], per_run_prods[u],
                                               EveType[u].portion_size, refine_rate)
                              ELSE 0],
                           EveType[u].mats)],
                   unref_tids)]
  IN IF Keys(per_run_prods) = {} \/ Keys(per_run_reqs) = {} \/ unref_tids = {}
     THEN 0
     ELSE SumOver([t \in Types |->
                     IF per_run_reqs[t] > 0 /\ recovered[t] > 0
                     THEN Max2(per_run_reqs[t] - recovered[t], 0) ELSE 0],
                  Types)

\* feeders.sort(key=(-overlap, name)) and feeders[:max_count]; feeders holds
\* indices into priced_plans, overlap[i] is the overlap of plan i
feeders_sort(feeders, overlap, priced_plans) ==
  SubSeq(StableSort(feeders,
                    [i \in 1..Len(feeders) |-> [j \in 1..Len(feeders) |->
                       \/ overlap[feeders[i]] > overlap[feeders[j]]
                       \/ /\ overlap[feeders[i]] = overlap[feeders[j]]
                          /\ priced_plans[feeders[i]].name
                               < priced_plans[feeders[j]].name]]),
         1, Min2(Len(feeders), max_count))

find_feeders_uncapped(parent, priced_plans) ==
  SelectSeq([i \in 1..Len(priced_plans) |-> i],
            LAMBDA i : /\ i # parent
                       /\ \E pid \in Keys(priced_plans[i].per_run_products) :
                            /\ pid \in Keys(priced_plans[parent].per_run_requirements)
                            /\ ~is_fuel_id(pid))

\* find_feeders_for_parent: indices into priced_plans, best first
find_feeders_for_parent(parent, priced_plans) ==
  LET parent_inputs == Keys(priced_plans[parent].per_run_requirements)
      feeds(i) == i # parent
                  /\ \E pid \in Keys(priced_plans[i].per_run_products) :
                        pid \in parent_inputs /\ ~is_fuel_id(pid)
  IN feeders_sort(SelectSeq([i \in 1..Len(priced_plans) |-> i], feeds),
                  [i \in 1..Len(priced_plans) |->
                     Cardinality(Keys(priced_plans[i].per_run_products)
                                 \cap Keys(priced_plans[parent].per_run_requirements))],
                  priced_plans)

RECURSIVE plan_reactions_once(_, _, _)
\* plan_reactions_once: the plans of reactions k.. against the running ledger
plan_reactions_once(reactions, k, remaining) ==
  IF k > Len(reactions) THEN << >>
  ELSE
    LET rx == reactions[k]
        reqs == rx.materials
        prods == rx.products
        max_runs == MaxRunsOnce(remaining, reqs)
        after == [t \in Types |->
                    remaining[t] - reqs[t] * max_runs + prods[t] * max_runs]
        plan == IF max_runs <= 0
                THEN [reaction |-> k, runs |-> 0,
                      missing |-> [t \in Types |->
                                     IF reqs[t] > 0
                                     THEN Max2(reqs[t] - remaining[t], 0) ELSE 0],
                      have_any |-> \E t \in Keys(reqs) : remaining[t] > 0,
                      per_run_requirements |-> reqs,
                      per_run_products |-> prods,
                      before |-> remaining, after |-> remaining]
                ELSE [reaction |-> k, runs |-> max_runs,
                      missing |-> Empty,
                      have_any |-> TRUE,
                      per_run_requirements |-> reqs,
                      per_run_products |-> prods,
                      before |-> remaining, after |-> after]
    IN <<plan>> \o plan_reactions_once(reactions, k + 1, plan.after)

\* one entry of priced_plans (views.py), the quantities of it
PricedPlan(p, reactions, stock, me_pct) ==
  LET per_run_reqs == apply_me_to_requirements(p.per_run_requirements, me_pct)
  IN [name |-> reactions[p.reaction].name,
      runs |-> RunsCap(stock, per_run_reqs),
      per_run_requirements |-> per_run_reqs,
      per_run_products |-> p.per_run_products,
      have_any |-> p.have_any,
      blueprint_type_id |-> reactions[p.reaction].blueprint_type_id]

\* ---------------------------------------------------------- views.py
\* the settings a request runs under (form values or ReactionSettings);
\* percentages in thousandths of a percent, buyback_pct in whole percent
Settings == {
  [rig_me |-> "none", facility_location |-> "low", smp_level |-> 0,
   input_basis |-> "buy", output_basis |-> "buy", broker_fee_pct |-> 0,
   accounting_level |-> 5, facility_tax_pct |-> 0, cost_index_pct |-> 0,
   use_buyback |-> FALSE, buyback_pct |-> 90, buyback_basis |-> "buy"],
  [rig_me |-> "none", facility_location |-> "low", smp_level |-> 5,
   input_basis |-> "buy", output_basis |-> "sell", broker_fee_pct |-> 3000,
   accounting_level |-> 5, facility_tax_pct |-> 1500, cost_index_pct |-> 150,
   use_buyback |-> FALSE, buyback_pct |-> 90, buyback_basis |-> "buy"],
  [rig_me |-> "t2", facility_location |-> "null", smp_level |-> 2,
   input_basis |-> "sell", output_basis |-> "sell", broker_fee_pct |-> 1000,
   accounting_level |-> 0, facility_tax_pct |-> 1000, cost_index_pct |-> 0,
   use_buyback |-> TRUE, buyback_pct |-> 90, buyback_basis |-> "buy"] }

from_children_after_stock(supplied, required_total) == 0
\* from_children = min(supplemental_supply[tid], required_total)
from_children_of(supplied, required_total) == Min2(supplied, required_total)

from_stock_unchecked(have_now, remain_after_children) == remain_after_children
\* from_stock = min(have_now, remain_after_children)
from_stock_of(have_now, remain_after_children) == Min2(have_now, remain_after_children)

qty_actual_lost(out_per_run, runs) == out_per_run
\* qty_actual = out_per_run * runs, the quantity added to the ledger
qty_actual_of(out_per_run, runs) == out_per_run * runs

cum_profit_reset(cum_profit, step_profit) == step_profit
\* cum_profit_next = cum_profit + step_profit
cum_profit_next_of(cum_profit, step_profit) == cum_profit + step_profit

\* f"{x:,.2f}" of a non-negative Decimal: round half even to 2 decimals
Display2(x) ==
  LET q == x \div 1000
      r == x % 1000
  IN IF r > 500 \/ (r = 500 /\ q % 2 = 1) THEN (q + 1) * 1000 ELSE q * 1000

\* build_step, views.py 530-541: the largest capacity of a single non-fuel
\* requirement, used for the displayed quantities and values
display_target_runs_of(per_run_reqs, current_stock, supplemental_supply) ==
  LET gating == {t \in Keys(per_run_reqs) : ~is_fuel_id(t)}
  IN IF gating = {} THEN 0
     ELSE MaxOf({(current_stock[t] + supplemental_supply[t]) \div per_run_reqs[t] :
                   t \in gating})

\* build_step, views.py 561-613: the values of one requirement, given what
\* is taken from the feeders and from the ledger
build_step_input_values(tid, need_per_run, display_target_runs, have_now, from_children, from_stock, cfg) ==
  LET unit == price_input(tid, cfg.input_basis)
      need_missing_display ==
        Max2(need_per_run * display_target_runs - (from_children + from_stock), 0)
      unit_stock_eff ==
        IF cfg.use_buyback /\ from_stock > 0 /\ ~is_fuel_id(tid)
        THEN price_input(tid, cfg.buyback_basis) * cfg.buyback_pct * 1000
        ELSE unit * 100000
  IN [from_children |-> from_children,
      from_stock |-> from_stock,
      missing_val_with_broker |->
        unit * need_missing_display * (100000 + cfg.broker_fee_pct),
      have_val_stock |-> unit_stock_eff * from_stock,
      consumed_cost |-> unit * from_children * 100000 + unit_stock_eff * from_stock,
      have_after |-> Max2(0, have_now - from_stock)]

\* build_step, views.py 543-559: one pass of the loop over the requirements
build_step_input(tid, need_per_run, runs, display_target_runs, have_now, supplied, cfg) ==
  build_step_input_values(
    tid, need_per_run, display_target_runs, have_now,
    from_children_of(supplied, need_per_run * runs),
    from_stock_of(have_now,
                  need_per_run * runs - from_children_of(supplied, need_per_run * runs)),
    cfg)

\* build_step, views.py 615-640: the money of a step, given its sums
build_step_money(produced_value_display, consumed_cost_raw, need_val_sum, stock_val_sum, cum_profit, cfg) ==
  LET produced_net ==
        IF cfg.output_basis = "buy"
        THEN produced_value_display * (100000 - cfg.broker_fee_pct)
        ELSE produced_value_display
             * (100000 - (cfg.broker_fee_pct + sales_tax_pct(cfg.accounting_level)))
      fees_inputs ==
        ((consumed_cost_raw \div 1000)
         * (scc_pct + cfg.facility_tax_pct + cfg.cost_index_pct)) \div 100
  IN [fees_inputs |-> fees_inputs,
      step_profit |-> produced_net - fees_inputs - need_val_sum - stock_val_sum]

\* build_step, views.py 615-684: the step record, given the input lines, the
\* ledger after the step and the money
build_step_record(plan_idx, plan, runs, current_stock, cum_profit, supplemental_supply, display_target_runs, inputs, after, money, cfg) ==
  [kind |-> "reaction",
   plan |-> plan_idx,
   blueprint_type_id |-> plan.blueprint_type_id,
   runs |-> runs,
   need_per_run |-> plan.per_run_requirements,
   out_per_run |-> plan.per_run_products,
   before |-> current_stock,
   supply |-> supplemental_supply,
   from_children |-> [t \in Types |-> inputs[t].from_children],
   from_stock |-> [t \in Types |-> inputs[t].from_stock],
   after |-> after,
   used |-> Empty,
   add |-> Empty,
   produced_qty |->
     SumOver([t \in Types |-> plan.per_run_products[t] * display_target_runs], Types),
   produced_value |->
     SumOver([t \in Types |->
                price_output(t, cfg.output_basis)
                * (plan.per_run_products[t] * display_target_runs)], Types) * 100000,
   value_need |-> SumOver([t \in Types |-> inputs[t].missing_val_with_broker], Types),
   stock_value_used |-> SumOver([t \in Types |-> inputs[t].have_val_stock], Types),
   fees_inputs |-> money.fees_inputs,
   step_profit |-> money.step_profit,
   cumulative_profit |-> cum_profit_next_of(cum_profit, money.step_profit),
   is_feeder |-> FALSE,
   children |-> << >>]

\* build_step, views.py 543-640: the loop over the requirements and the
\* loop over the products, given display_target_runs and the input lines
build_step_lines(plan_idx, plan, runs, current_stock, cum_profit, supplemental_supply, display_target_runs, inputs, cfg) ==
  build_step_record(
    plan_idx, plan, runs, current_stock, cum_profit, supplemental_supply,
    display_target_runs, inputs,
    [t \in Types |-> inputs[t].have_after + qty_actual_of(plan.per_run_products[t], runs)],
    build_step_money(
      SumOver([t \in Types |->
                 price_output(t, cfg.output_basis)
                 * (plan.per_run_products[t] * display_target_runs)], Types),
      SumOver([t \in Types |-> inputs[t].consumed_cost], Types),
      SumOver([t \in Types |-> inputs[t].missing_val_with_broker], Types),
      SumOver([t \in Types |-> inputs[t].have_val_stock], Types),
      cum_profit, cfg),
    cfg)

\* build_step, views.py 543-613, given display_target_runs: the line of
\* each requirement (a type that is no requirement has need 0 and keeps its
\* quantity)
build_step_inputs(plan_idx, plan, runs, current_stock, cum_profit, supplemental_supply, display_target_runs, cfg) ==
  build_step_lines(
    plan_idx, plan, runs, current_stock, cum_profit, supplemental_supply,
    display_target_runs,
    [t \in Types |->
       IF plan.per_run_requirements[t] > 0
       THEN build_step_input(t, plan.per_run_requirements[t], runs, display_target_runs,
                             current_stock[t], supplemental_supply[t], cfg)
       ELSE [from_children |-> 0, from_stock |-> 0, missing_val_with_broker |-> 0,
             have_val_stock |-> 0, consumed_cost |-> 0, have_after |-> current_stock[t]]],
    cfg)

\* build_step: the step record (the ledger after the step is its "after",
\* the cumulative profit its "cumulative_profit")
build_step(plan_idx, plan, runs, current_stock, cum_profit, supplemental_supply, cfg) ==
  build_step_inputs(
    plan_idx, plan, runs, current_stock, cum_profit, supplemental_supply,
    display_target_runs_of(plan.per_run_requirements, current_stock, supplemental_supply),
    cfg)

\* build_reprocess_step, with the ledger around it; it carries no fees, no
\* need cost, no stock value and no "step_profit" key (0 here)
build_reprocess_step(unrefined_used, refined_add, before, after, profit, cfg) ==
  [kind |-> "reprocess",
   plan |-> 0,
   blueprint_type_id |-> 0,
   runs |-> 1,
   need_per_run |-> unrefined_used,
   out_per_run |-> refined_add,
   before |-> before,
   supply |-> Empty,
   from_children |-> Empty,
   from_stock |-> [t \in Types |-> before[t] - Max2(0, before[t] - unrefined_used[t])],
   after |-> after,
   used |-> unrefined_used,
   add |-> refined_add,
   produced_qty |-> SumOver(refined_add, Types),
   produced_value |-> SumOver([t \in Types |->
                        price_output(t, cfg.output_basis) * refined_add[t] * 100000],
                        Types),
   value_need |-> 0,
   stock_value_used |-> 0,
   fees_inputs |-> 0,
   step_profit |-> 0,
   cumulative_profit |-> profit,
   is_feeder |-> FALSE,
   children |-> << >>]

\* the ledger after the unrefined output was taken out and the refined
\* materials were put in (views.py 801-804, 842-845, 916-919)
ApplyReprocess(ledger, unref_used, refined_add) ==
  [t \in Types |-> Max2(0, ledger[t] - unref_used[t]) + refined_add[t]]

\* the ledger after a quantity map was taken out (views.py 746-747, 758-759)
TakeOutNothing(ledger, qmap) == ledger
TakeOut(ledger, qmap) == [t \in Types |-> Max2(0, ledger[t] - qmap[t])]

produced_map_of(plan, runs) == [t \in Types |-> plan.per_run_products[t] * runs]

would_self_loop(refined_from_step, prev, stock_snapshot, plans) ==
  /\ Keys(refined_from_step) # {}
  /\ LET prev_inputs == Keys(plans[prev].per_run_requirements)
     IN \E c \in 1..Len(plans) :
          /\ c # prev
          /\ runcap_with_present(stock_snapshot, plans[c].per_run_requirements) > 0
          /\ \E t \in Keys(plans[c].per_run_requirements) :
               ~is_fuel_id(t) /\ t \in prev_inputs /\ t \in Keys(refined_from_step)

passes_self_loop_guard_deep(plan_next, recovered_add_prev, prev_step_plan, stock_snapshot) ==
  IF Keys(recovered_add_prev) = {} THEN TRUE
  ELSE
    LET prev_inputs_set == Keys(prev_step_plan.per_run_requirements)
        rcap_local == runcap_with_present(stock_snapshot, plan_next.per_run_requirements)
    IN IF rcap_local <= 0 THEN FALSE
       ELSE \A t \in Keys(plan_next.per_run_requirements) :
              (~is_fuel_id(t) /\ t \in prev_inputs_set /\ t \in Keys(recovered_add_prev))
                => recovered_add_prev[t] >= plan_next.per_run_requirements[t] * rcap_local

\* the (produces-unrefined, self-recovery-loss) key and its order
RankKey(plan, cfg) ==
  [unref |-> produces_unrefined(plan),
   loss |-> self_recovery_loss(plan, unrefined_refine_rate(cfg.smp_level))]
KeyLess(a, b) ==
  \/ (~a.unref /\ b.unref)
  \/ (a.unref = b.unref /\ a.loss < b.loss)

\* the keys of all priced plans
RankKeys(plans, cfg) == [i \in 1..Len(plans) |-> RankKey(plans[i], cfg)]

\* the first plan of eligible with the least key (0 when there is none)
BestOf(eligible, key) ==
  IF eligible = {} THEN 0
  ELSE CHOOSE i \in eligible :
         /\ \A j \in eligible : ~KeyLess(key[j], key[i])
         /\ \A j \in eligible : j < i => KeyLess(key[i], key[j])

\* root selection (views.py 686-717): indices into priced_plans, ranked
RootCandidates(plans, stock) ==
  LET has_any(i) == \E t \in Keys(plans[i].per_run_requirements) :
                       stock[t] > 0 /\ ~is_fuel_id(t)
      can_be_fed(i) ==
        \E c \in 1..Len(plans) :
           /\ c # i
           /\ Keys(plans[i].per_run_requirements) \cap Keys(plans[c].per_run_products) # {}
           /\ runcap_with_present(stock, plans[c].per_run_requirements) > 0
      seen(i) == \E j \in 1..(i - 1) :
                   /\ has_any(j) \/ can_be_fed(j)
                   /\ plans[j].blueprint_type_id = plans[i].blueprint_type_id
      accept(i) == (has_any(i) \/ can_be_fed(i)) /\ ~seen(i)
  IN SelectSeq([i \in 1..Len(plans) |-> i], accept)

\* sorted(candidates, key=(produces_unrefined, loss)) (views.py 716-717)
candidates_sorted(candidates, key) ==
  StableSort(candidates,
             [i \in 1..Len(candidates) |-> [j \in 1..Len(candidates) |->
                KeyLess(key[candidates[i]], key[candidates[j]])]])

goal_plans_twice(plans, stock, cfg) ==
  candidates_sorted(RootCandidates(plans, stock) \o RootCandidates(plans, stock),
                    RankKeys(plans, cfg))
\* goal_plans: the root candidates in ranked order
goal_plans_of(plans, stock, cfg) ==
  candidates_sorted(RootCandidates(plans, stock), RankKeys(plans, cfg))

\* ------------------------------------------------------- the inputs drawn
\* Reaction rows with their ReactionMaterial / ReactionProduct rows; name is
\* the rank of the reaction's name in string order
ReactionPool == <<
  [blueprint_type_id |-> 101, name |-> 1,
   materials |-> Qty({<<Alpha, 10>>}), products |-> Qty({<<Beta, 5>>})],
  [blueprint_type_id |-> 102, name |-> 2,
   materials |-> Qty({<<Beta, 50>>}), products |-> Qty({<<Gamma, 10>>})],
  [blueprint_type_id |-> 103, name |-> 3,
   materials |-> Qty({<<Gamma, 1>>}),
   products |-> Qty({<<Alpha, 2>>, <<UnrefinedBeta, 1>>})],
  [blueprint_type_id |-> 104, name |-> 4,
   materials |-> Qty({<<Alpha, 10>>, <<Delta, 5>>, <<FuelBlock, 5>>}),
   products |-> Qty({<<Gamma, 2>>})],
  [blueprint_type_id |-> 105, name |-> 5,
   materials |-> Qty({<<Alpha, 10>>}), products |-> Qty({<<UnrefinedBeta, 1>>})],
  [blueprint_type_id |-> 106, name |-> 6,
   materials |-> Qty({<<Alpha, 5>>}), products |-> Qty({<<Gamma, 1>>})] >>

\* the catalogs of at most MaxCatalog reactions, in enumeration order
SmallCatalogs ==
  {[k \in 1..Cardinality(S) |-> ReactionPool[SetToSeq(S)[k]]] :
     S \in {T \in SUBSET (1..Len(ReactionPool)) :
              Cardinality(T) >= 1 /\ Cardinality(T) <= MaxCatalog}}

SmallStocks ==
  {Qty({<<Alpha, a>>, <<Beta, b>>, <<Gamma, g>>, <<Delta, d>>, <<FuelBlock, f>>}) :
     a \in {0, 5, 100, 105}, b \in {0, 60}, g \in {0, 3}, d \in {0, 3, 30}, f \in {0, 40}}

\* a large catalog: k reactions that can never run (200 Alpha per run),
\* then virtual_limit + 1 reactions that can (10 Alpha per run)
LargeCatalog(k) ==
  [i \in 1..(k + virtual_limit + 1) |->
     [blueprint_type_id |-> 1000 + i, name |-> 1000 + i,
      materials |-> Qty({<<Alpha, IF i <= k THEN 200 ELSE 10>>}),
      products |-> Qty({<<Beta, 5>>})]]

LargeStock == Qty({<<Alpha, 100>>})

\* a catalog in which one recipe (103) has three recipes feeding it, more than
\* find_feeders_for_parent returns
FeederCatalog == [k \in 1..4 |-> ReactionPool[<<102, 103, 104, 106>>[k] - 100]]

FeederStocks == {s \in SmallStocks : s[Alpha] > 0 /\ s[Beta] = 60 /\ s[Gamma] = 0}

PlainSettings == CHOOSE c \in Settings : c.broker_fee_pct = 0

\* the allocation sites of the ledgers (dict objects) of one request
Sites == {"stock", "cur", "cur_after_step1", "cur2", "cur_stock", "cur_tmp_a", "cur_tmp_b"}

dict_alias(src, fresh) == src
\* dict(src): the object the copy is bound to is the fresh one
dict_copy(src, fresh) == fresh

\* ------------------------------------------------------------ the state
VARIABLES
  reactions,        \* Reaction.objects.all(), in enumeration order
  stock_in,         \* the ledger build_initial_stock handed to the planner
  cfg,              \* the settings of the request
  pc,               \* the position in InputView.post
  plans_raw,        \* plan_reactions_with_chain(stock)
  priced_plans,
  goal_plans,       \* indices into priced_plans
  gi,               \* number of goal plans taken from goal_plans
  heap,             \* the ledger held at each allocation site
  obj,              \* the site each ledger variable is bound to
  feeders,          \* indices into priced_plans
  fi,               \* number of feeders looked at
  feeder_supply,
  feeder_steps_for_parent,
  rendered,
  profit,
  hop,              \* gp / p2 / pn, refined_add, allowed inputs, depth
  chains_raw,
  chains_sorted,
  evaluated         \* number of goal plans the loop body was entered for

\* the state of one planning request
planner_vars == <<reactions, stock_in, cfg, plans_raw, priced_plans, goal_plans, gi,
                  heap, obj, feeders, fi, feeder_supply, feeder_steps_for_parent,
                  rendered, profit, hop, chains_raw, chains_sorted, evaluated>>

\* a helper function called on its own
VARIABLES
  call,             \* the function called and its arguments
  result            \* what it returned

calls_vars == <<call, result>>

\* parse_input_lines
VARIABLES
  raw,              \* the text handed to the parser
  line_no,          \* number of raw lines the loop has taken
  agg               \* the dict agg, in insertion order

parse_vars == <<raw, line_no, agg>>

\* the items of a request on their way to the ledger (views.py 281-334)
VARIABLES
  resolved,         \* resolve_types(parsed_pairs)
  categorized       \* categorize_items(resolved)

intake_vars == <<resolved, categorized>>

\* the price reads of a request (pricing.py)
VARIABLES
  price_rows,       \* the EveTypePrice table
  upstream,         \* what the external price source answers
  storage,          \* what the database answers
  price_reads       \* the prices the request has read so far

price_vars == <<price_rows, upstream, storage, price_reads>>

\* the import_reactions command
VARIABLES
  feed,             \* the lines of reactions.jsonl
  idx,              \* number of lines read
  imported,
  errors,
  rows              \* the Reaction rows written inside the transaction

import_vars == <<feed, idx, imported, errors, rows>>

\* what a planning request leaves alone
outside == <<calls_vars, parse_vars, intake_vars, price_vars, import_vars>>

vars == <<pc, planner_vars, outside>>

inputs == <<reactions, stock_in, cfg>>
chain_vars == <<feeders, fi, feeder_supply, feeder_steps_for_parent, rendered, profit, hop>>

NoHop == [gp |-> 0, prev |-> 0, p2 |-> 0, refined_add |-> Empty,
          unref_used |-> Empty, allowed |-> {}, depth |-> 0]

\* no helper function is being called on its own
CallsIdle ==
  /\ call = [fn |-> "none"]
  /\ result = [fn |-> "none"]

ParseIdle ==
  /\ raw = ""
  /\ line_no = 0
  /\ agg = << >>

IntakeIdle ==
  /\ resolved = << >>
  /\ categorized = << >>

PriceIdle ==
  /\ price_rows = << >>
  /\ upstream = "none"
  /\ storage = "none"
  /\ price_reads = << >>

ImportIdle ==
  /\ feed = << >>
  /\ idx = 0
  /\ imported = 0
  /\ errors = 0
  /\ rows = {}

OutsideIdle == CallsIdle /\ ParseIdle /\ IntakeIdle /\ PriceIdle /\ ImportIdle

\* the state of a request before plan_reactions_with_chain is called
PlannerStart ==
  /\ plans_raw = << >>
  /\ priced_plans = << >>
  /\ goal_plans = << >>
  /\ gi = 0
  /\ heap = [s \in Sites |-> IF s = "stock" THEN stock_in ELSE Empty]
  /\ obj = [cur |-> "cur", cur_after_step1 |-> "cur_after_step1",
            cur_after2 |-> "cur2", cur_stock |-> "cur_stock"]
  /\ feeders = << >>
  /\ fi = 0
  /\ feeder_supply = Empty
  /\ feeder_steps_for_parent = << >>
  /\ rendered = << >>
  /\ profit = 0
  /\ hop = NoHop
  /\ chains_raw = << >>
  /\ chains_sorted = << >>
  /\ evaluated = 0

Init ==
  /\ \/ /\ reactions \in SmallCatalogs
        /\ stock_in \in SmallStocks
        /\ cfg \in Settings
     \/ /\ reactions \in {LargeCatalog(k) : k \in 0..MaxAbandoned}
        /\ stock_in = LargeStock
        /\ cfg = PlainSettings
     \/ /\ reactions = FeederCatalog
        /\ stock_in \in FeederStocks
        /\ cfg = PlainSettings
  /\ pc = "plan"
  /\ PlannerStart
  /\ OutsideIdle

\* views.py 334: plans_raw = plan_reactions_with_chain(stock)
PlanReactions ==
  /\ pc = "plan"
  /\ plans_raw' = plan_reactions_once(reactions, 1, heap["stock"])
  /\ pc' = "price"
  /\ UNCHANGED <<outside, inputs, priced_plans, goal_plans, gi, heap, obj, chain_vars,
                 chains_raw, chains_sorted, evaluated>>

\* views.py 387-509: priced_plans
PricePlans ==
  /\ pc = "price"
  /\ priced_plans' =
       [i \in 1..Len(plans_raw) |->
          PricedPlan(plans_raw[i], reactions, heap["stock"],
                     me_bonus_pct(cfg.rig_me, cfg.facility_location))]
  /\ pc' = "roots"
  /\ UNCHANGED <<outside, inputs, plans_raw, goal_plans, gi, heap, obj, chain_vars,
                 chains_raw, chains_sorted, evaluated>>

\* views.py 686-717: goal_plans
SelectRoots ==
  /\ pc = "roots"
  /\ goal_plans' = goal_plans_of(priced_plans, heap["stock"], cfg)
  /\ pc' = "goal"
  /\ UNCHANGED <<outside, inputs, plans_raw, priced_plans, gi, heap, obj, chain_vars,
                 chains_raw, chains_sorted, evaluated>>

RefineRate == unrefined_refine_rate(cfg.smp_level)
NonFuel(S) == {t \in S : ~is_fuel_id(t)}

\* views.py 722-733: the head of the loop over goal_plans and the set-up of
\* one candidate
StartCandidate ==
  /\ pc = "goal"
  /\ gi < Len(goal_plans)
  /\ Len(chains_raw) < virtual_limit
  /\ LET gp == goal_plans[gi + 1]
         cur == dict_copy("stock", "cur")
         heap1 == [heap EXCEPT ![cur] = heap["stock"]]
         cur_after_step1 == dict_copy(cur, "cur_after_step1")
     IN /\ heap' = [heap1 EXCEPT ![cur_after_step1] = heap1[cur]]
        /\ obj' = [obj EXCEPT !.cur = cur, !.cur_after_step1 = cur_after_step1]
        /\ feeders' = find_feeders_for_parent(gp, priced_plans)
        /\ hop' = [NoHop EXCEPT !.gp = gp, !.prev = gp]
  /\ gi' = gi + 1
  /\ evaluated' = evaluated + 1
  /\ fi' = 0
  /\ feeder_supply' = Empty
  /\ feeder_steps_for_parent' = << >>
  /\ rendered' = << >>
  /\ profit' = 0
  /\ pc' = "feeders"
  /\ UNCHANGED <<outside, inputs, plans_raw, priced_plans, goal_plans, chains_raw, chains_sorted>>

\* views.py 723-724: if len(chains_raw) >= virtual_limit: break
LimitBreak ==
  /\ pc = "goal"
  /\ gi < Len(goal_plans)
  /\ Len(chains_raw) >= virtual_limit
  /\ pc' = "sort"
  /\ UNCHANGED <<outside, inputs, plans_raw, priced_plans, goal_plans, gi, heap, obj,
                 chain_vars, chains_raw, chains_sorted, evaluated>>

\* views.py 722: goal_plans is exhausted
GoalsExhausted ==
  /\ pc = "goal"
  /\ gi = Len(goal_plans)
  /\ pc' = "sort"
  /\ UNCHANGED <<outside, inputs, plans_raw, priced_plans, goal_plans, gi, heap, obj,
                 chain_vars, chains_raw, chains_sorted, evaluated>>

\* views.py 735-738: a feeder without capacity is passed over
FeederSkip ==
  /\ pc = "feeders"
  /\ fi < Len(feeders)
  /\ LET fd == priced_plans[feeders[fi + 1]]
     IN runcap_with_present(heap[obj.cur_after_step1], fd.per_run_requirements) <= 0
  /\ fi' = fi + 1
  /\ UNCHANGED <<outside, inputs, pc, plans_raw, priced_plans, goal_plans, gi, heap, obj,
                 feeders, feeder_supply, feeder_steps_for_parent, rendered, profit,
                 hop, chains_raw, chains_sorted, evaluated>>

\* views.py 735-759: a feeder is run and its output moved to the supply
FeederRun ==
  /\ pc = "feeders"
  /\ fi < Len(feeders)
  /\ \E fd \in {priced_plans[feeders[fi + 1]]} :
     \E r_fd \in {runcap_with_present(heap[obj.cur_after_step1], fd.per_run_requirements)} :
       /\ r_fd > 0
       /\ \E step_fd \in {build_step(feeders[fi + 1], fd, r_fd, heap[obj.cur_after_step1],
                                     profit, Empty, cfg)} :
          \E produced_map \in {produced_map_of(fd, r_fd)} :
            \E rp \in {reprocess_unrefined_in_stock(produced_map, RefineRate)} :
              \E ledger2 \in {TakeOut(step_fd.after,
                                      IF Keys(rp.add) # {} THEN rp.used ELSE produced_map)} :
                /\ heap' = [heap EXCEPT ![obj.cur_after_step1] = ledger2]
                /\ feeder_supply' =
                     add_supply(feeder_supply,
                                IF Keys(rp.add) # {} THEN rp.add ELSE produced_map)
                /\ feeder_steps_for_parent' =
                     feeder_steps_for_parent
                     \o (IF Keys(rp.add) # {}
                         THEN << [step_fd EXCEPT !.is_feeder = TRUE],
                                 [build_reprocess_step(rp.used, rp.add, step_fd.after, ledger2,
                                                       step_fd.cumulative_profit, cfg)
                                    EXCEPT !.is_feeder = TRUE] >>
                         ELSE << [step_fd EXCEPT !.is_feeder = TRUE] >>)
                /\ profit' = step_fd.cumulative_profit
  /\ fi' = fi + 1
  /\ UNCHANGED <<outside, inputs, pc, plans_raw, priced_plans, goal_plans, gi, obj, feeders,
                 rendered, hop, chains_raw, chains_sorted, evaluated>>

\* views.py 761-766: the root cannot run, the candidate is abandoned
RootAbandon ==
  /\ pc = "feeders"
  /\ fi = Len(feeders)
  /\ runcap_with_supply(heap[obj.cur_after_step1],
                        priced_plans[hop.gp].per_run_requirements, feeder_supply) <= 0
  /\ rendered' = feeder_steps_for_parent
  /\ pc' = "goal"
  /\ UNCHANGED <<outside, inputs, plans_raw, priced_plans, goal_plans, gi, heap, obj, feeders, fi,
                 feeder_supply, feeder_steps_for_parent, profit, hop,
                 chains_raw, chains_sorted, evaluated>>

\* views.py 761-777: the root step
RootRun ==
  /\ pc = "feeders"
  /\ fi = Len(feeders)
  /\ \E gp \in {priced_plans[hop.gp]} :
     \E r1 \in {runcap_with_supply(heap[obj.cur_after_step1], gp.per_run_requirements,
                                   feeder_supply)} :
       /\ r1 > 0
       /\ \E step1 \in {build_step(hop.gp, gp, r1, heap[obj.cur_after_step1], profit,
                                   feeder_supply, cfg)} :
          \E rp \in {reprocess_unrefined_in_stock(produced_map_of(gp, r1), RefineRate)} :
            /\ heap' = [heap EXCEPT ![obj.cur_after_step1] = step1.after]
            /\ profit' = step1.cumulative_profit
            /\ rendered' = feeder_steps_for_parent
                            \o << [step1 EXCEPT !.children = feeder_steps_for_parent] >>
            /\ hop' = [hop EXCEPT !.refined_add = rp.add, !.unref_used = rp.used]
  /\ pc' = "guard"
  /\ UNCHANGED <<outside, inputs, plans_raw, priced_plans, goal_plans, gi, obj, feeders, fi,
                 feeder_supply, feeder_steps_for_parent, chains_raw, chains_sorted, evaluated>>

\* views.py 797-798: the self-loop guard fires, the candidate is abandoned
SelfLoopAbandon ==
  /\ pc = "guard"
  /\ would_self_loop(hop.refined_add, hop.gp, heap[obj.cur_after_step1], priced_plans)
  /\ pc' = "goal"
  /\ UNCHANGED <<outside, inputs, plans_raw, priced_plans, goal_plans, gi, heap, obj,
                 chain_vars, chains_raw, chains_sorted, evaluated>>

\* views.py 800-812: the root's unrefined output is reprocessed
AfterRoot ==
  /\ pc = "guard"
  /\ ~would_self_loop(hop.refined_add, hop.gp, heap[obj.cur_after_step1], priced_plans)
  /\ LET ledger == heap[obj.cur_after_step1]
         refined == Keys(hop.refined_add) # {}
         ledger2 == ApplyReprocess(ledger, hop.unref_used, hop.refined_add)
         re_step == build_reprocess_step(hop.unref_used, hop.refined_add,
                                         ledger, ledger2, profit, cfg)
     IN IF refined
        THEN /\ heap' = [heap EXCEPT ![obj.cur_after_step1] = ledger2]
             /\ rendered' = Append(rendered, re_step)
             /\ hop' = [hop EXCEPT !.allowed = NonFuel(Keys(hop.refined_add))]
        ELSE /\ heap' = heap
             /\ rendered' = rendered
             /\ hop' = [hop EXCEPT !.allowed =
                          NonFuel(Keys(priced_plans[hop.gp].per_run_products))]
  /\ pc' = "step2"
  /\ UNCHANGED <<outside, inputs, plans_raw, priced_plans, goal_plans, gi, obj, feeders, fi,
                 feeder_supply, feeder_steps_for_parent, profit,
                 chains_raw, chains_sorted, evaluated>>

\* views.py 817-830: the plans eligible as second step
Step2Eligible ==
  {i \in 1..Len(priced_plans) :
     /\ i # hop.gp
     /\ consumes_any_of(priced_plans[i], hop.allowed)
     /\ ~has_refined_already(priced_plans[i], heap[obj.cur_after_step1])
     /\ runcap_with_present(heap[obj.cur_after_step1],
                            priced_plans[i].per_run_requirements) > 0}

\* views.py 832: no second step
Step2None ==
  /\ pc = "step2"
  /\ BestOf(Step2Eligible, RankKeys(priced_plans, cfg)) = 0
  /\ pc' = "emit"
  /\ UNCHANGED <<outside, inputs, plans_raw, priced_plans, goal_plans, gi, heap, obj,
                 chain_vars, chains_raw, chains_sorted, evaluated>>

\* views.py 832-857: the second step, on a copy of the ledger
Step2Run ==
  /\ pc = "step2"
  /\ \E best \in {BestOf(Step2Eligible, RankKeys(priced_plans, cfg))} :
     /\ best # 0
     /\ \E p2 \in {priced_plans[best]} :
        \E r2 \in {runcap_with_present(heap[obj.cur_after_step1], p2.per_run_requirements)} :
          \E cur2 \in {dict_copy(obj.cur_after_step1, "cur2")} :
            \E step2 \in {build_step(best, p2, r2, heap[obj.cur_after_step1],
                                     profit, Empty, cfg)} :
              \E rp \in {reprocess_unrefined_in_stock(produced_map_of(p2, r2), RefineRate)} :
                \E ledger2 \in {IF Keys(rp.add) # {}
                                THEN ApplyReprocess(step2.after, rp.used, rp.add)
                                ELSE step2.after} :
                  \E cur_stock \in {dict_copy(cur2, "cur_stock")} :
                    /\ heap' = [[heap EXCEPT ![cur2] = ledger2] EXCEPT ![cur_stock] = ledger2]
                    /\ obj' = [obj EXCEPT !.cur_after2 = cur2, !.cur_stock = cur_stock]
                    /\ rendered' =
                         rendered
                         \o (IF Keys(rp.add) # {}
                             THEN << step2,
                                     build_reprocess_step(rp.used, rp.add, step2.after, ledger2,
                                                          step2.cumulative_profit, cfg) >>
                             ELSE << step2 >>)
                    /\ profit' = step2.cumulative_profit
                    /\ hop' = [hop EXCEPT !.prev = best, !.p2 = best,
                                          !.refined_add = rp.add,
                                          !.unref_used = rp.used, !.depth = 2,
                                          !.allowed =
                                            NonFuel(IF Keys(rp.add) # {} THEN Keys(rp.add)
                                                    ELSE Keys(p2.per_run_products))]
  /\ pc' = "deep"
  /\ UNCHANGED <<outside, inputs, plans_raw, priced_plans, goal_plans, gi, feeders, fi,
                 feeder_supply, feeder_steps_for_parent, chains_raw, chains_sorted, evaluated>>

while_depth_late(depth) == depth < max_depth + 1
\* views.py 858: while depth < 4
while_depth(depth) == depth < max_depth

\* views.py 861-903: the plans eligible as next hop; the guard is given p2
\* as previous plan at depth 2 and the candidate itself afterwards
DeepEligible ==
  {i \in 1..Len(priced_plans) :
     /\ consumes_any_of(priced_plans[i], hop.allowed)
     /\ ~has_refined_already(priced_plans[i], heap[obj.cur_stock])
     /\ passes_self_loop_guard_deep(
          priced_plans[i], hop.refined_add,
          IF hop.depth = 2 THEN priced_plans[hop.p2] ELSE priced_plans[i],
          heap[obj.cur_stock])
     /\ runcap_with_present(heap[obj.cur_stock], priced_plans[i].per_run_requirements) > 0}

\* views.py 858, 905-906: the loop over the hops ends
DeepStop ==
  /\ pc = "deep"
  /\ ~while_depth(hop.depth) \/ BestOf(DeepEligible, RankKeys(priced_plans, cfg)) = 0
  /\ pc' = "emit"
  /\ UNCHANGED <<outside, inputs, plans_raw, priced_plans, goal_plans, gi, heap, obj,
                 chain_vars, chains_raw, chains_sorted, evaluated>>

\* views.py 858-933: one more hop, on a copy of the ledger
DeepRun ==
  /\ pc = "deep"
  /\ while_depth(hop.depth)
  /\ \E best \in {BestOf(DeepEligible, RankKeys(priced_plans, cfg))} :
     /\ best # 0
     /\ \E pn \in {priced_plans[best]} :
        \E rN \in {runcap_with_present(heap[obj.cur_stock], pn.per_run_requirements)} :
          \E cur_tmp \in {dict_copy(obj.cur_stock,
                                    IF obj.cur_stock = "cur_tmp_a"
                                    THEN "cur_tmp_b" ELSE "cur_tmp_a")} :
            \E stepN \in {build_step(best, pn, rN, heap[obj.cur_stock], profit, Empty, cfg)} :
              \E rp \in {reprocess_unrefined_in_stock(produced_map_of(pn, rN), RefineRate)} :
                \E ledger2 \in {IF Keys(rp.add) # {}
                                THEN ApplyReprocess(stepN.after, rp.used, rp.add)
                                ELSE stepN.after} :
                  /\ heap' = [heap EXCEPT ![cur_tmp] = ledger2]
                  /\ obj' = [obj EXCEPT !.cur_stock = cur_tmp]
                  /\ rendered' =
                       rendered
                       \o (IF Keys(rp.add) # {}
                           THEN << stepN,
                                   build_reprocess_step(rp.used, rp.add, stepN.after, ledger2,
                                                        stepN.cumulative_profit, cfg) >>
                           ELSE << stepN >>)
                  /\ profit' = stepN.cumulative_profit
                  /\ hop' = [hop EXCEPT !.prev = best, !.refined_add = rp.add,
                                        !.unref_used = rp.used, !.depth = hop.depth + 1,
                                        !.allowed =
                                          NonFuel(IF Keys(rp.add) # {} THEN Keys(rp.add)
                                                  ELSE Keys(pn.per_run_products))]
  /\ UNCHANGED <<outside, inputs, pc, plans_raw, priced_plans, goal_plans, gi, feeders, fi,
                 feeder_supply, feeder_steps_for_parent, chains_raw, chains_sorted, evaluated>>

\* views.py 935-952: the totals of a chain
ChainOf(steps, root) ==
  LET reaction_idx == {k \in 1..Len(steps) : steps[k].kind = "reaction"}
      final_value == IF reaction_idx = {} THEN 0
                     ELSE Display2(steps[MaxOf(reaction_idx)].produced_value)
      final_fees == SumSeq([k \in 1..Len(steps) |-> Display2(steps[k].fees_inputs)])
      total_needed_cost == SumSeq([k \in 1..Len(steps) |-> Display2(steps[k].value_need)])
      total_stock_value_used ==
        SumSeq([k \in 1..Len(steps) |-> Display2(steps[k].stock_value_used)])
  IN [root |-> root,
      steps |-> steps,
      final_value |-> final_value,
      final_fees |-> final_fees,
      final_need_cost |-> total_needed_cost,
      total_stock_value_used |-> total_stock_value_used,
      final_profit |-> IF steps = << >> THEN 0
                       ELSE final_value - final_fees - total_needed_cost
                            - total_stock_value_used]

\* views.py 935-1031: the chain is emitted
EmitChain ==
  /\ pc = "emit"
  /\ chains_raw' = Append(chains_raw,
                          ChainOf(rendered, priced_plans[hop.gp].blueprint_type_id))
  /\ pc' = "goal"
  /\ UNCHANGED <<outside, inputs, plans_raw, priced_plans, goal_plans, gi, heap, obj,
                 chain_vars, chains_sorted, evaluated>>

\* views.py 1033-1042: sorted by (final_profit, final_value), largest first
SortChains ==
  /\ pc = "sort"
  /\ LET Less(a, b) ==
           \/ Display2(a.final_profit) > Display2(b.final_profit)
           \/ /\ Display2(a.final_profit) = Display2(b.final_profit)
              /\ a.final_value > b.final_value
     IN chains_sorted' = StableSort(chains_raw, [i \in 1..Len(chains_raw) |-> [j \in 1..Len(chains_raw) |->
                  Less(chains_raw[i], chains_raw[j])]])
  /\ pc' = "done"
  /\ UNCHANGED <<outside, inputs, plans_raw, priced_plans, goal_plans, gi, heap, obj,
                 chain_vars, chains_raw, evaluated>>

Next ==
  \/ PlanReactions
  \/ PricePlans
  \/ SelectRoots
  \/ StartCandidate
  \/ LimitBreak
  \/ GoalsExhausted
  \/ FeederSkip
  \/ FeederRun
  \/ RootAbandon
  \/ RootRun
  \/ SelfLoopAbandon
  \/ AfterRoot
  \/ Step2None
  \/ Step2Run
  \/ DeepStop
  \/ DeepRun
  \/ EmitChain
  \/ SortChains

Spec == Init /\ [][Next]_vars

\* ------------------------------------------------ helper.py 26-121: parser
\* Texts are strings; the i-th character of s
Ch(s, i) == SubSeq(s, i, i)

Digits == {"0", "1", "2", "3", "4", "5", "6", "7", "8", "9"}
\* [\d,._kKmMbB+-]
QtyChars == Digits \cup {",", ".", "_", "k", "K", "m", "M", "b", "B", "+", "-"}
\* \s, for the texts drawn here
IsSpace(c) == c \in {" ", "\t"}
\* [;\n\r]
LineSeps == {";", "\n", "\r"}

\* str.strip()
Strip(s) ==
  LET ns == {i \in 1..Len(s) : ~IsSpace(Ch(s, i))}
  IN IF ns = {} THEN "" ELSE SubSeq(s, MinOf(ns), MaxOf(ns))

\* str.strip(c)
StripChar(s, c) ==
  LET ns == {i \in 1..Len(s) : Ch(s, i) # c}
  IN IF ns = {} THEN "" ELSE SubSeq(s, MinOf(ns), MaxOf(ns))

\* str.rstrip(c)
RStripChar(s, c) ==
  LET ns == {i \in 1..Len(s) : Ch(s, i) # c}
  IN IF ns = {} THEN "" ELSE SubSeq(s, 1, MaxOf(ns))

RECURSIVE collapse_ws(_, _)
\* re.sub(r"\s+", " ", s), from position i on
collapse_ws(s, i) ==
  IF i > Len(s) THEN ""
  ELSE (IF ~IsSpace(Ch(s, i)) THEN Ch(s, i)
        ELSE IF i > 1 /\ IsSpace(Ch(s, i - 1)) THEN "" ELSE " ")
       \o collapse_ws(s, i + 1)

RECURSIVE remove_chars(_, _, _)
\* s without the characters of drop, from position i on
remove_chars(s, drop, i) ==
  IF i > Len(s) THEN ""
  ELSE (IF Ch(s, i) \in drop THEN "" ELSE Ch(s, i)) \o remove_chars(s, drop, i + 1)

\* helper.py 47-51
clean_name_fragment(s) ==
  LET s2 == collapse_ws(StripChar(StripChar(Strip(s), "\""), "'"), 1)
      ns == {i \in 1..Len(s2) : ~IsSpace(Ch(s2, i))}
      before == {i \in ns : i < MaxOf(ns)}
  IN IF ns # {} /\ Ch(s2, MaxOf(ns)) \in {":", "|", ",", "-"}
     THEN (IF before = {} THEN "" ELSE SubSeq(s2, 1, MaxOf(before)))
     ELSE s2

\* the value of a string of digits
DigitVal(c) == CHOOSE d \in 0..9 : Ch("0123456789", d + 1) = c
RECURSIVE ToNat(_)
ToNat(s) ==
  IF s = "" THEN 0
  ELSE ToNat(SubSeq(s, 1, Len(s) - 1)) * 10 + DigitVal(Ch(s, Len(s)))

AllIn(s, chars) == Len(s) >= 1 /\ \A i \in 1..Len(s) : Ch(s, i) \in chars

RECURSIVE Pow10(_)
Pow10(n) == IF n = 0 THEN 1 ELSE 10 * Pow10(n - 1)

\* int(s2) of helper.py 31-35: an optional sign and digits, otherwise 0
int_or_zero(s2) ==
  LET signed == Len(s2) >= 1 /\ Ch(s2, 1) \in {"+", "-"}
      body == IF signed THEN SubSeq(s2, 2, Len(s2)) ELSE s2
  IN IF ~AllIn(body, Digits) THEN 0
     ELSE IF signed /\ Ch(s2, 1) = "-" THEN 0 - ToNat(body) ELSE ToNat(body)

\* helper.py 36-45: int(float(num) * mult) of sign, digits, fraction, suffix;
\* the product is exact for the fractions drawn here (halves)
number_value(negative, whole, frac, suf) ==
  LET mult == IF suf = "k" THEN 1000 ELSE IF suf = "m" THEN 1000000
              ELSE IF suf = "b" THEN 1000000000 ELSE 1
      mag == ToNat(whole) * mult + (ToNat(frac) * mult) \div Pow10(Len(frac))
  IN IF negative THEN 0 - mag ELSE mag

\* helper.py 26-45, for a token of QtyChars
parse_number_token(tok) ==
  LET s0 == remove_chars(tok, {",", "_"}, 1)
      lower(c) == IF c = "K" THEN "k" ELSE IF c = "M" THEN "m"
                  ELSE IF c = "B" THEN "b" ELSE c
      s == [i \in 1..Len(s0) |-> lower(Ch(s0, i))]
      n == Len(s0)
      signed == n >= 1 /\ s[1] \in {"+", "-"}
      has_suf == n >= 1 /\ s[n] \in {"k", "m", "b"}
      lo == IF signed THEN 2 ELSE 1
      hi == IF has_suf THEN n - 1 ELSE n
      dots == {i \in lo..hi : s[i] = "."}
      dot == IF dots = {} THEN hi + 1 ELSE MinOf(dots)
      whole == SubSeq(s0, lo, dot - 1)
      frac == SubSeq(s0, dot + 1, hi)
      matches == /\ AllIn(whole, Digits)
                 /\ dots = {} \/ (Cardinality(dots) = 1 /\ AllIn(frac, Digits))
  IN IF matches
     THEN number_value(signed /\ s[1] = "-", whole, frac, IF has_suf THEN s[n] ELSE "")
     ELSE int_or_zero(remove_chars(tok, QtyChars \ (Digits \cup {"-", "+"}), 1))

\* line_seps.split(raw): the pieces between runs of separators
line_split(text) ==
  LET n == Len(text)
      sep(i) == Ch(text, i) \in LineSeps
      starts == {i \in 1..(n + 1) :
                   \/ i = 1
                   \/ /\ sep(i - 1)
                      /\ i = n + 1 \/ ~sep(i)}
      stop(i) == MinOf({j \in (i - 1)..n : j = n \/ sep(j + 1)})
  IN [k \in 1..Cardinality(starts) |->
        SubSeq(text, SetToSeq(starts)[k], stop(SetToSeq(starts)[k]))]

\* part_seps.split(line) of a normalised line: the pieces between pipes
part_split(line) ==
  LET n == Len(line)
      starts == {1} \cup {i + 1 : i \in {j \in 1..n : Ch(line, j) = "|"}}
      stop(i) == MinOf({j \in (i - 1)..n : j = n \/ Ch(line, j + 1) = "|"})
  IN [k \in 1..Cardinality(starts) |->
        SubSeq(line, SetToSeq(starts)[k], stop(SetToSeq(starts)[k]))]

\* helper.py 67-71: strip, tabs to blanks, runs of whitespace to one blank
normalize_line(raw_line) == Strip(collapse_ws(Strip(raw_line), 1))

NoMatch == [ok |-> FALSE, name |-> "", qty |-> ""]

\* what follows position i of a line, one blank skipped
Behind(line, i) ==
  IF i < Len(line) /\ Ch(line, i + 1) = " "
  THEN SubSeq(line, i + 2, Len(line))
  ELSE SubSeq(line, i + 1, Len(line))

\* ^(?P<name>.+?)\s*[marks]\s*(?P<qty>[\d,._kKmMbB+-]+)\s*$ on a normalised
\* line: the first mark with nothing but a quantity token behind it
match_name_mark_qty(line, marks) ==
  LET at == {i \in 2..Len(line) : Ch(line, i) \in marks /\ AllIn(Behind(line, i), QtyChars)}
  IN IF at = {} THEN NoMatch
     ELSE [ok |-> TRUE, name |-> SubSeq(line, 1, MinOf(at) - 1),
           qty |-> Behind(line, MinOf(at))]

\* the length of the longest prefix of quantity characters
qty_prefix_len(line) ==
  LET bad == {i \in 1..Len(line) : Ch(line, i) \notin QtyChars}
  IN IF bad = {} THEN Len(line) ELSE MinOf(bad) - 1

\* ^(?P<qty>[\d,._kKmMbB+-]+)\s*[x]\s*(?P<name>.+?)\s*$
match_qty_x_name(line) ==
  LET a == qty_prefix_len(line)
      i == IF a < Len(line) /\ Ch(line, a + 1) = " " THEN a + 2 ELSE a + 1
  IN IF a >= 1 /\ i < Len(line) /\ Ch(line, i) = "x"
     THEN [ok |-> TRUE, name |-> Behind(line, i), qty |-> SubSeq(line, 1, a)]
     ELSE NoMatch

\* ^(?P<name>.*\D)\s+(?P<qty>[\d,._kKmMbB+-]+)\s*$
match_name_qty(line) ==
  LET sp == {i \in 1..Len(line) : Ch(line, i) = " "}
  IN IF sp = {} THEN NoMatch
     ELSE IF /\ AllIn(SubSeq(line, MaxOf(sp) + 1, Len(line)), QtyChars)
             /\ Ch(line, MaxOf(sp) - 1) \notin Digits
     THEN [ok |-> TRUE, name |-> SubSeq(line, 1, MaxOf(sp) - 1),
           qty |-> SubSeq(line, MaxOf(sp) + 1, Len(line))]
     ELSE NoMatch

\* ^(?P<qty>[\d,._kKmMbB+-]+)\s+(?P<name>.+?)\s*$
match_qty_name(line) ==
  LET a == qty_prefix_len(line)
  IN IF a >= 1 /\ a < Len(line) /\ Ch(line, a + 1) = " "
     THEN [ok |-> TRUE, name |-> SubSeq(line, a + 2, Len(line)), qty |-> SubSeq(line, 1, a)]
     ELSE NoMatch

\* helper.py 109-116: the last run of quantity characters and the name
\* before it
last_number(line) ==
  LET q == {i \in 1..Len(line) : Ch(line, i) \in QtyChars}
      en == MaxOf(q)
      st == MinOf({i \in 1..en : \A j \in i..en : j \in q})
  IN IF q = {} THEN NoMatch
     ELSE [ok |-> TRUE,
           name |-> Strip(RStripChar(Strip(SubSeq(line, 1, st - 1)), ",")),
           qty |-> SubSeq(line, st, en)]

\* helper.py 96-106: what one chunk of a line adds
chunk_adds(chunk) ==
  LET c == Strip(chunk)
      mm == match_name_qty(c)
  IN IF c = "" THEN << >>
     ELSE IF mm.ok THEN << [name |-> mm.name, qty |-> parse_number_token(mm.qty)] >>
     ELSE IF AllIn(c, QtyChars) THEN << >>
     ELSE << [name |-> c, qty |-> 1] >>

RECURSIVE Flatten(_)
Flatten(ss) == IF ss = << >> THEN << >> ELSE Head(ss) \o Flatten(Tail(ss))

OneAdd(m) == << [name |-> m.name, qty |-> parse_number_token(m.qty)] >>

\* helper.py 73-119: the branch a normalised line takes and the calls of
\* add(name, qty) it makes
parse_line(line) ==
  IF line = "" THEN [branch |-> "blank", adds |-> << >>]
  ELSE IF match_name_mark_qty(line, {"x"}).ok
  THEN [branch |-> "name_x_qty", adds |-> OneAdd(match_name_mark_qty(line, {"x"}))]
  ELSE IF match_qty_x_name(line).ok
  THEN [branch |-> "qty_x_name", adds |-> OneAdd(match_qty_x_name(line))]
  ELSE IF match_name_mark_qty(line, {":", "-"}).ok
  THEN [branch |-> "name_sep_qty", adds |-> OneAdd(match_name_mark_qty(line, {":", "-"}))]
  ELSE IF match_name_qty(line).ok
  THEN [branch |-> "name_qty", adds |-> OneAdd(match_name_qty(line))]
  ELSE IF match_qty_name(line).ok
  THEN [branch |-> "qty_name", adds |-> OneAdd(match_qty_name(line))]
  ELSE IF Len(part_split(line)) > 1
  THEN [branch |-> "chunks",
        adds |-> Flatten([k \in 1..Len(part_split(line)) |->
                            chunk_adds(part_split(line)[k])])]
  ELSE IF last_number(line).ok
  THEN [branch |-> "last_number",
        adds |-> IF last_number(line).name = "" THEN << >>
                 ELSE OneAdd(last_number(line))]
  ELSE [branch |-> "whole_line", adds |-> << [name |-> line, qty |-> 1] >>]

dict_put(old, qty) == qty
\* agg.get(name_clean, 0) + int(qty)
dict_add(old, qty) == old + qty

\* helper.py 60-64: add(name, qty) on the dict agg (entries in insertion order)
add(d, name, qty) ==
  LET name_clean == clean_name_fragment(name)
      at == {i \in 1..Len(d) : d[i].name = name_clean}
  IN IF name_clean = "" \/ qty <= 0 THEN d
     ELSE IF at = {} THEN Append(d, [name |-> name_clean, qty |-> dict_add(0, qty)])
     ELSE [d EXCEPT ![MinOf(at)].qty = dict_add(d[MinOf(at)].qty, qty)]

RECURSIVE add_all(_, _)
add_all(d, adds) ==
  IF adds = << >> THEN d
  ELSE add_all(add(d, Head(adds).name, Head(adds).qty), Tail(adds))

RECURSIVE parse_lines(_, _, _)
\* the loop of parse_input_lines over the raw lines k.. with the dict d
parse_lines(raw_lines, k, d) ==
  IF k > Len(raw_lines) THEN d
  ELSE parse_lines(raw_lines, k + 1,
                   add_all(d, parse_line(normalize_line(raw_lines[k])).adds))

\* helper.py 53-121
parse_input_lines(text) ==
  IF text = "" THEN << >> ELSE parse_lines(line_split(text), 1, << >>)

\* ------------------------------------------- helper functions on their own
\* largest number of items handed to refine_from_inputs
MaxItems == 2

\* what is left of the state while a helper function is called on its own
PlannerIdle ==
  /\ reactions = << >>
  /\ stock_in = Empty
  /\ cfg = PlainSettings
  /\ PlannerStart

beyond_calls == <<parse_vars, intake_vars, price_vars, import_vars>>

NoCall == [fn |-> "none", per_run_requirements |-> Empty, me_pct |-> 0,
           items |-> << >>, refine_rate |-> 0, unrefined_refine_rate |-> 0,
           produced |-> Empty]

\* base quantities and ME bonuses (thousandths of a percent, as me_bonus_pct
\* quantizes to 0.001)
MeBases == {0, 1, 2, 3, 7, 10, 50, 99, 100, 1000}
MeBonuses == {0, 2000, 2200, 2400, 2640, 25000, 33333, 50000, 99999, 100000}

ApplyMeCalls ==
  {[NoCall EXCEPT !.fn = "apply_me_to_requirements",
                  !.per_run_requirements = Qty({<<Alpha, a>>, <<Delta, d>>}),
                  !.me_pct = m] :
     a \in MeBases, d \in {0, 5}, m \in MeBonuses}

\* ParsedItem rows; the portion sizes (1, 40, 100) divide exactly in Decimal
RefineItems ==
  {[tid |-> UnrefinedBeta, quantity |-> q, category |-> "refine"] : q \in {1, 3, 7}}
  \cup {[tid |-> Ore, quantity |-> q, category |-> "refine"] : q \in {50, 150, 250}}
  \cup {[tid |-> NitrogenFuelBlock, quantity |-> 100, category |-> "fuel"],
        [tid |-> Alpha, quantity |-> 5, category |-> "material"]}

ItemLists == UNION {[1..n -> RefineItems] : n \in 1..MaxItems}

RefineCalls ==
  {[NoCall EXCEPT !.fn = "refine_from_inputs", !.items = its,
                  !.refine_rate = r, !.unrefined_refine_rate = u] :
     its \in ItemLists, r \in {50, 80}, u \in {50, 55}}

ReprocessCalls ==
  {[NoCall EXCEPT !.fn = "reprocess_unrefined_in_stock",
                  !.produced = Qty({<<UnrefinedBeta, q>>, <<Beta, b>>}),
                  !.refine_rate = r] :
     q \in 0..9, b \in {0, 5}, r \in {50, 52, 55}}

InitCalls ==
  /\ call \in ApplyMeCalls \cup RefineCalls \cup ReprocessCalls
  /\ result = [fn |-> "none"]
  /\ pc = "call"
  /\ PlannerIdle
  /\ ParseIdle /\ IntakeIdle /\ PriceIdle /\ ImportIdle

\* helper.py 164-169
CallApplyMe ==
  /\ pc = "call"
  /\ call.fn = "apply_me_to_requirements"
  /\ result' = [fn |-> call.fn,
                out |-> apply_me_to_requirements(call.per_run_requirements, call.me_pct),
                keys |-> {}, used |-> Empty]
  /\ pc' = "returned"
  /\ UNCHANGED <<call, planner_vars, beyond_calls>>

\* helper.py 221-253
CallRefineFromInputs ==
  /\ pc = "call"
  /\ call.fn = "refine_from_inputs"
  /\ \E r \in {refine_from_inputs(call.items, call.refine_rate,
                                   call.unrefined_refine_rate)} :
       result' = [fn |-> call.fn, out |-> r.refined, keys |-> r.keys, used |-> Empty]
  /\ pc' = "returned"
  /\ UNCHANGED <<call, planner_vars, beyond_calls>>

\* helper.py 448-495
CallReprocess ==
  /\ pc = "call"
  /\ call.fn = "reprocess_unrefined_in_stock"
  /\ \E rp \in {reprocess_unrefined_in_stock(call.produced, call.refine_rate)} :
       result' = [fn |-> call.fn, out |-> rp.add, keys |-> Keys(rp.add), used |-> rp.used]
  /\ pc' = "returned"
  /\ UNCHANGED <<call, planner_vars, beyond_calls>>

NextCalls ==
  \/ CallApplyMe
  \/ CallRefineFromInputs
  \/ CallReprocess

SpecCalls == InitCalls /\ [][NextCalls]_vars

\* ------------------------------------------------- parse_input_lines
\* largest number of lines in a drawn text
MaxLines == 2

ParserLines ==
  {"Tritanium x 100", "Tritanium x 50", "34,250000", "Tritanium - 2.5m",
   "Tritanium", "Pyerite", "5 x Pyerite", "Pyerite 10", "10 Pyerite",
   "Pyerite 10|Isogen", "Pyerite x -5", " "}

RECURSIVE JoinLines(_)
JoinLines(ls) ==
  IF Len(ls) = 1 THEN ls[1] ELSE ls[1] \o "\n" \o JoinLines(Tail(ls))

ParserTexts ==
  {""} \cup {JoinLines(ls) : ls \in UNION {[1..n -> ParserLines] : n \in 1..MaxLines}}

beyond_parse == <<calls_vars, intake_vars, price_vars, import_vars>>

InitParse ==
  /\ raw \in ParserTexts
  /\ line_no = 0
  /\ agg = << >>
  /\ pc = "parse"
  /\ PlannerIdle
  /\ CallsIdle /\ IntakeIdle /\ PriceIdle /\ ImportIdle

\* helper.py 54-55: if not raw: return []
ParseEmptyText ==
  /\ pc = "parse"
  /\ raw = ""
  /\ pc' = "parsed"
  /\ UNCHANGED <<parse_vars, planner_vars, beyond_parse>>

\* helper.py 66: the line the loop takes next, parsed
NextLine == parse_line(normalize_line(line_split(raw)[line_no + 1]))

\* helper.py 66-119: the loop is at a line that takes the branch
LineTakes(branch) ==
  /\ pc = "parse"
  /\ raw # ""
  /\ line_no < Len(line_split(raw))
  /\ NextLine.branch = branch

\* helper.py 67-69
ParseBlank ==
  /\ LineTakes("blank")
  /\ agg' = add_all(agg, NextLine.adds)
  /\ line_no' = line_no + 1
  /\ UNCHANGED <<pc, raw, planner_vars, beyond_parse>>

\* helper.py 73-76
ParseNameXQty ==
  /\ LineTakes("name_x_qty")
  /\ agg' = add_all(agg, NextLine.adds)
  /\ line_no' = line_no + 1
  /\ UNCHANGED <<pc, raw, planner_vars, beyond_parse>>

\* helper.py 77-80
ParseQtyXName ==
  /\ LineTakes("qty_x_name")
  /\ agg' = add_all(agg, NextLine.adds)
  /\ line_no' = line_no + 1
  /\ UNCHANGED <<pc, raw, planner_vars, beyond_parse>>

\* helper.py 81-84
ParseNameSepQty ==
  /\ LineTakes("name_sep_qty")
  /\ agg' = add_all(agg, NextLine.adds)
  /\ line_no' = line_no + 1
  /\ UNCHANGED <<pc, raw, planner_vars, beyond_parse>>

\* helper.py 85-88
ParseNameQty ==
  /\ LineTakes("name_qty")
  /\ agg' = add_all(agg, NextLine.adds)
  /\ line_no' = line_no + 1
  /\ UNCHANGED <<pc, raw, planner_vars, beyond_parse>>

\* helper.py 89-92
ParseQtyName ==
  /\ LineTakes("qty_name")
  /\ agg' = add_all(agg, NextLine.adds)
  /\ line_no' = line_no + 1
  /\ UNCHANGED <<pc, raw, planner_vars, beyond_parse>>

\* helper.py 94-107
ParseChunks ==
  /\ LineTakes("chunks")
  /\ agg' = add_all(agg, NextLine.adds)
  /\ line_no' = line_no + 1
  /\ UNCHANGED <<pc, raw, planner_vars, beyond_parse>>

\* helper.py 109-117
ParseLastNumber ==
  /\ LineTakes("last_number")
  /\ agg' = add_all(agg, NextLine.adds)
  /\ line_no' = line_no + 1
  /\ UNCHANGED <<pc, raw, planner_vars, beyond_parse>>

\* helper.py 119
ParseWholeLine ==
  /\ LineTakes("whole_line")
  /\ agg' = add_all(agg, NextLine.adds)
  /\ line_no' = line_no + 1
  /\ UNCHANGED <<pc, raw, planner_vars, beyond_parse>>

\* helper.py 121
ParseReturn ==
  /\ pc = "parse"
  /\ raw # ""
  /\ line_no = Len(line_split(raw))
  /\ pc' = "parsed"
  /\ UNCHANGED <<parse_vars, planner_vars, beyond_parse>>

NextParse ==
  \/ ParseEmptyText
  \/ ParseBlank
  \/ ParseNameXQty
  \/ ParseQtyXName
  \/ ParseNameSepQty
  \/ ParseNameQty
  \/ ParseQtyName
  \/ ParseChunks
  \/ ParseLastNumber
  \/ ParseWholeLine
  \/ ParseReturn

SpecParse == InitParse /\ [][NextParse]_vars

\* ------------------------------------------------------------ pricing
\* largest number of price reads in a drawn request
MaxReads == 2

\* app_settings.py 9
AAREACTIONS_PRICE_INSTANT == TRUE

PriceItems == {Alpha, Delta}
PriceBases == {"buy", "sell"}
NoRow == [missing |-> TRUE]
ZeroQuote == [buy |-> 0, sell |-> 0, buy_average |-> 0, sell_average |-> 0]
GoodQuote == [buy |-> 5, sell |-> 7, buy_average |-> 4, sell_average |-> 6]

UpstreamOutcomes ==
  {"ok", "network_error", "http_error", "missing_node", "missing_buy", "missing_sell"}
StorageOutcomes == {"ok", "read_error", "write_error"}

LookupFailed(outcome) == outcome # "ok"

\* pricing.py 48-99: the four prices are assigned one after the other inside
\* the try, so a payload that lacks a later key keeps the earlier ones
fetch_prices(outcome) ==
  CASE outcome = "ok" -> GoodQuote
    [] outcome = "missing_sell" -> [ZeroQuote EXCEPT !.buy = GoodQuote.buy]
    [] OTHER -> ZeroQuote

\* pricing.py 126-143: only DoesNotExist is caught
get_or_create_prices(item_id) ==
  IF storage = "read_error"
  THEN [raised |-> TRUE, row |-> NoRow, rows |-> price_rows, fetched |-> FALSE]
  ELSE IF price_rows[item_id] # NoRow
  THEN [raised |-> FALSE, row |-> price_rows[item_id], rows |-> price_rows,
        fetched |-> FALSE]
  ELSE IF storage = "write_error"
  THEN [raised |-> TRUE, row |-> NoRow, rows |-> price_rows, fetched |-> TRUE]
  ELSE [raised |-> FALSE, row |-> fetch_prices(upstream),
        rows |-> [price_rows EXCEPT ![item_id] = fetch_prices(upstream)],
        fetched |-> TRUE]

row_value(row, basis) ==
  IF basis = "buy"
  THEN (IF AAREACTIONS_PRICE_INSTANT THEN row.buy ELSE row.buy_average)
  ELSE (IF AAREACTIONS_PRICE_INSTANT THEN row.sell ELSE row.sell_average)

\* pricing.py 158-166
resolve_price_value(item_id, basis) ==
  LET g == get_or_create_prices(item_id)
  IN [raised |-> g.raised,
      value |-> IF g.raised THEN 0 ELSE row_value(g.row, basis),
      rows |-> g.rows,
      failed |-> g.raised \/ (g.fetched /\ LookupFailed(upstream))]

\* helper.py 412-422 with the lookup behind it: try ... except Exception:
\* return Decimal("0")
price_input_lookup(tid, basis) ==
  LET r == resolve_price_value(tid, basis)
  IN [r EXCEPT !.raised = FALSE, !.value = IF r.raised THEN 0 ELSE r.value]

price_output_lookup(tid, basis) == price_input_lookup(tid, basis)

Read(site, tid, basis, r) ==
  [site |-> site, tid |-> tid, basis |-> basis, value |-> r.value,
   raised |-> r.raised, failed |-> r.failed]

beyond_price == <<calls_vars, parse_vars, intake_vars, import_vars>>

InitPrice ==
  /\ price_rows \in [PriceItems -> {NoRow, GoodQuote}]
  /\ upstream \in UpstreamOutcomes
  /\ storage \in StorageOutcomes
  /\ price_reads = << >>
  /\ pc = "price"
  /\ PlannerIdle
  /\ CallsIdle /\ ParseIdle /\ IntakeIdle /\ ImportIdle

\* views.py 290-312: the direct inputs rows call resolve_price_value itself
PriceDirectInput ==
  /\ pc = "price"
  /\ Len(price_reads) < MaxReads
  /\ \E tid \in PriceItems, basis \in PriceBases :
       \E r \in {resolve_price_value(tid, basis)} :
         /\ price_reads' = Append(price_reads, Read("direct_inputs", tid, basis, r))
         /\ price_rows' = r.rows
         /\ pc' = IF r.raised THEN "aborted" ELSE "price"
  /\ UNCHANGED <<upstream, storage, planner_vars, beyond_price>>

\* views.py 278, 350, 371, 392; helper.py 511
PriceInput ==
  /\ pc = "price"
  /\ Len(price_reads) < MaxReads
  /\ \E tid \in PriceItems, basis \in PriceBases :
       \E r \in {price_input_lookup(tid, basis)} :
         /\ price_reads' = Append(price_reads, Read("price_input", tid, basis, r))
         /\ price_rows' = r.rows
  /\ UNCHANGED <<pc, upstream, storage, planner_vars, beyond_price>>

\* views.py 395; helper.py 541
PriceOutput ==
  /\ pc = "price"
  /\ Len(price_reads) < MaxReads
  /\ \E tid \in PriceItems, basis \in PriceBases :
       \E r \in {price_output_lookup(tid, basis)} :
         /\ price_reads' = Append(price_reads, Read("price_output", tid, basis, r))
         /\ price_rows' = r.rows
  /\ UNCHANGED <<pc, upstream, storage, planner_vars, beyond_price>>

\* the request renders its response
PriceRespond ==
  /\ pc = "price"
  /\ pc' = "responded"
  /\ UNCHANGED <<price_vars, planner_vars, beyond_price>>

NextPrice ==
  \/ PriceDirectInput
  \/ PriceInput
  \/ PriceOutput
  \/ PriceRespond

SpecPrice == InitPrice /\ [][NextPrice]_vars

\* ---------------------------------------------------- import_reactions
\* largest number of lines in a drawn feed
MaxFeed == 3

\* the shapes a line of reactions.jsonl can have:
\*   blank         only whitespace
\*   bad_json      not JSON
\*   not_object    JSON, but not an object (data.get raises)
\*   no_bp         an object without blueprintTypeID
\*   bad_type_id   a material or product whose typeID is not an integer
\*   entry_number  a material or product entry that is a number
\*   entry_string  a material or product entry that is a string
\*   good          a well-formed record
FeedBlueprints == {101, 102}
MalformedKinds ==
  {"bad_json", "not_object", "no_bp", "bad_type_id", "entry_number", "entry_string"}
FeedLines ==
  {[kind |-> "blank", bp |-> 0], [kind |-> "bad_json", bp |-> 0],
   [kind |-> "not_object", bp |-> 0], [kind |-> "no_bp", bp |-> 0]}
    \cup [kind : {"bad_type_id", "entry_number", "entry_string", "good"},
          bp : FeedBlueprints]
Feeds == UNION {[1..n -> FeedLines] : n \in 1..MaxFeed}

beyond_import == <<calls_vars, parse_vars, intake_vars, price_vars>>

InitImport ==
  /\ feed \in Feeds
  /\ idx = 0
  /\ imported = 0
  /\ errors = 0
  /\ rows = {}
  /\ pc = "import"
  /\ PlannerIdle
  /\ CallsIdle /\ ParseIdle /\ IntakeIdle /\ PriceIdle

\* import_reactions.py 23: the loop is at a line of the kind
LineIs(kinds) ==
  /\ pc = "import"
  /\ idx < Len(feed)
  /\ feed[idx + 1].kind \in kinds

\* import_reactions.py 24-26
ImportBlank ==
  /\ LineIs({"blank"})
  /\ idx' = idx + 1
  /\ UNCHANGED <<pc, feed, imported, errors, rows, planner_vars, beyond_import>>

\* import_reactions.py 27-32
ImportJsonError ==
  /\ LineIs({"bad_json"})
  /\ idx' = idx + 1
  /\ errors' = errors + 1
  /\ UNCHANGED <<pc, feed, imported, rows, planner_vars, beyond_import>>

\* import_reactions.py 34-43
ImportParseError ==
  /\ LineIs({"not_object"})
  /\ idx' = idx + 1
  /\ errors' = errors + 1
  /\ UNCHANGED <<pc, feed, imported, rows, planner_vars, beyond_import>>

\* import_reactions.py 45-48
ImportMissingBlueprint ==
  /\ LineIs({"no_bp"})
  /\ idx' = idx + 1
  /\ errors' = errors + 1
  /\ UNCHANGED <<pc, feed, imported, rows, planner_vars, beyond_import>>

\* import_reactions.py 50-52: int(m["typeID"]) and "typeID" in m are outside
\* any try; the exception leaves transaction.atomic(), which rolls back
ImportRaise ==
  /\ LineIs({"bad_type_id", "entry_number"})
  /\ idx' = idx + 1
  /\ rows' = {}
  /\ pc' = "crashed"
  /\ UNCHANGED <<feed, imported, errors, planner_vars, beyond_import>>

\* import_reactions.py 50-96: a string entry passes line 50 ("typeID" in m
\* is False) and is skipped at 69-73
ImportReaction ==
  /\ LineIs({"good", "entry_string"})
  /\ idx' = idx + 1
  /\ rows' = rows \cup {feed[idx + 1].bp}
  /\ imported' = imported + 1
  /\ UNCHANGED <<pc, feed, errors, planner_vars, beyond_import>>

\* import_reactions.py 98
ImportFinish ==
  /\ pc = "import"
  /\ idx = Len(feed)
  /\ pc' = "imported"
  /\ UNCHANGED <<import_vars, planner_vars, beyond_import>>

NextImport ==
  \/ ImportBlank
  \/ ImportJsonError
  \/ ImportParseError
  \/ ImportMissingBlueprint
  \/ ImportRaise
  \/ ImportReaction
  \/ ImportFinish

SpecImport == InitImport /\ [][NextImport]_vars

\* ------------------------------------------------- InputView.post, intake
\* largest number of resolved items in a drawn request
MaxResolved == 2

\* a reaction whose requirements are a refinable type and a refinable fuel
\* block
RefinableInputsReaction ==
  [blueprint_type_id |-> 107, name |-> 7,
   materials |-> Qty({<<UnrefinedBeta, 2>>, <<NitrogenFuelBlock, 5>>}),
   products |-> Qty({<<Gamma, 1>>})]

IntakeCatalogs ==
  {<<ReactionPool[1]>>, <<ReactionPool[4]>>, <<RefinableInputsReaction>>,
   <<ReactionPool[4], RefinableInputsReaction>>}

IntakeTypes == {Alpha, Gamma, UnrefinedBeta, FuelBlock, Ore, NitrogenFuelBlock}
ResolvedItems == [tid : IntakeTypes, quantity : {50, 150}]
ResolvedLists == UNION {[1..n -> ResolvedItems] : n \in 1..MaxResolved}

\* helper.py 202: Reaction.objects.values_list("materials__type_id")
reaction_mat_ids == UNION {Keys(reactions[i].materials) : i \in 1..Len(reactions)}

\* helper.py 204-212, with the refine test before the material test
category_refine_first(tid) ==
  IF EveType[tid].fuel_block THEN "fuel"
  ELSE IF EveType[tid].mats # {} THEN "refine"
  ELSE IF tid \in reaction_mat_ids THEN "material"
  ELSE "other"

\* helper.py 204-212: the if / elif chain; "other" stands for the else
category_of(tid) ==
  IF EveType[tid].fuel_block THEN "fuel"
  ELSE IF tid \in reaction_mat_ids THEN "material"
  ELSE IF EveType[tid].mats # {} THEN "refine"
  ELSE "other"

IsCategorized(p) == p.category # "other"

\* helper.py 196-213
categorize_items(items) ==
  SelectSeq([k \in 1..Len(items) |->
               [tid |-> items[k].tid, quantity |-> items[k].quantity,
                category |-> category_of(items[k].tid)]],
            IsCategorized)

\* helper.py 255-267
build_initial_stock(items, refine_rate, unrefined_rate) ==
  LET refined == refine_from_inputs(items, refine_rate, unrefined_rate).refined
  IN [t \in Types |->
        refined[t]
        + SumSeq([k \in 1..Len(items) |->
                    IF items[k].tid = t /\ items[k].category \in {"material", "fuel"}
                    THEN items[k].quantity ELSE 0])]

\* views.py 316-331: every resolved item with a positive quantity whose id is
\* not a key of the ledger build_initial_stock returned is added to it
add_extra_ids(stock, items) ==
  [t \in Types |->
     stock[t]
     + SumSeq([k \in 1..Len(items) |->
                 IF items[k].tid = t /\ items[k].quantity > 0 /\ t \notin Keys(stock)
                 THEN items[k].quantity ELSE 0])]

beyond_intake == <<parse_vars, price_vars, import_vars>>

\* what plan_reactions_with_chain and the chain loop write
planning == <<plans_raw, priced_plans, goal_plans, gi, heap, obj, chain_vars,
              chains_raw, chains_sorted, evaluated>>

InitIntake ==
  /\ reactions \in IntakeCatalogs
  /\ cfg \in Settings
  /\ stock_in = Empty
  /\ PlannerStart
  /\ resolved \in ResolvedLists
  /\ categorized = << >>
  /\ \E r \in {50, 80} :
       call = [NoCall EXCEPT !.fn = "post", !.refine_rate = r,
                 !.unrefined_refine_rate = unrefined_refine_rate(cfg.smp_level)]
  /\ result = [fn |-> "none"]
  /\ pc = "intake"
  /\ ParseIdle /\ PriceIdle /\ ImportIdle

\* views.py 284-285
Categorize ==
  /\ pc = "intake"
  /\ categorized' = categorize_items(resolved)
  /\ pc' = "categorized"
  /\ UNCHANGED <<resolved, calls_vars, planner_vars, beyond_intake>>

\* views.py 314
BuildInitialStock ==
  /\ pc = "categorized"
  /\ stock_in' = build_initial_stock(categorized, call.refine_rate,
                                     call.unrefined_refine_rate)
  /\ pc' = "built"
  /\ UNCHANGED <<intake_vars, calls_vars, reactions, cfg, planning, beyond_intake>>

\* views.py 316-334: the ledger plan_reactions_with_chain is called with
AddExtraIds ==
  /\ pc = "built"
  /\ stock_in' = add_extra_ids(stock_in, resolved)
  /\ pc' = "handed"
  /\ UNCHANGED <<intake_vars, calls_vars, reactions, cfg, planning, beyond_intake>>

NextIntake ==
  \/ Categorize
  \/ BuildInitialStock
  \/ AddExtraIds

SpecIntake == InitIntake /\ [][NextIntake]_vars

\* ------------------------------------------------------------ properties
\* the steps of the chain under construction and of the emitted chains
SeqSet(q) == {q[k] : k \in 1..Len(q)}
ExecutedSteps ==
  SeqSet(rendered) \cup SeqSet(feeder_steps_for_parent)
  \cup UNION {SeqSet(chains_raw[c].steps) : c \in 1..Len(chains_raw)}
ReactionSteps == {s \in ExecutedSteps : s.kind = "reaction"}
ReprocessSteps == {s \in ExecutedSteps : s.kind = "reprocess"}

\* the step sequences of the emitted chains and of the one under construction
ChainSeqs == {chains_raw[c].steps : c \in 1..Len(chains_raw)} \cup {rendered}
ProductionIdx(steps) ==
  {k \in 1..Len(steps) : steps[k].kind = "reaction" /\ ~steps[k].is_feeder}

\* min over the non-fuel requirements with quantity > 0 of floor(ledger / q)
CapacityOf(ledger, reqs) ==
  LET gating == {t \in Types : reqs[t] > 0 /\ ~is_fuel_id(t)}
  IN IF gating = {} THEN 0 ELSE MinOf({ledger[t] \div reqs[t] : t \in gating})

\* C1 (as claimed): every reaction step with run count r has, for every
\* non-fuel requirement m with per-run quantity q > 0, r * q <= the quantity
\* of m available to it (ledger plus supplemental supply) before it runs.
CapacitySoundness ==
  \A s \in ReactionSteps :
    \A m \in Types :
      (s.need_per_run[m] > 0 /\ ~is_fuel_id(m))
        => s.runs * s.need_per_run[m] <= s.before[m] + s.supply[m]

\* C2: every ledger quantity is a non-negative integer and no step deducts
\* more of a material from the ledger than the ledger held before the step.
StockConservation ==
  /\ \A site \in Sites : \A t \in Types : heap[site][t] >= 0
  /\ \A i \in 1..Len(plans_raw) : \A t \in Types :
        /\ plans_raw[i].after[t] >= 0
        /\ plans_raw[i].per_run_requirements[t] * plans_raw[i].runs
             <= plans_raw[i].before[t]
  /\ \A s \in ExecutedSteps : \A t \in Types :
        /\ s.before[t] >= 0
        /\ s.after[t] >= 0
        /\ s.from_stock[t] >= 0
        /\ s.from_stock[t] <= s.before[t]
        /\ s.used[t] <= s.before[t]

\* C2 witness: a reaction step that used up a material of the ledger, with a
\* reprocess step behind it
StockConservationWitness ==
  /\ \E s \in ReactionSteps : \E t \in Types :
        s.from_stock[t] > 0 /\ s.from_stock[t] = s.before[t]
  /\ \E s \in ReprocessSteps : \E t \in Types : s.used[t] > 0

StepProfitSum(steps) == SumSeq([k \in 1..Len(steps) |-> steps[k].step_profit])

\* C3 (as claimed): the final_profit of every emitted chain is the sum of the
\* step_profit of its steps.
ProfitAdditivity ==
  \A c \in 1..Len(chains_raw) :
    chains_raw[c].final_profit = StepProfitSum(chains_raw[c].steps)

\* C3 (amended): the cumulative_profit of the last reaction step of every
\* emitted chain is the sum of the step_profit of the steps of the chain.
CumulativeProfitAdditivity ==
  \A c \in 1..Len(chains_raw) :
    LET steps == chains_raw[c].steps
        last == MaxOf({k \in 1..Len(steps) : steps[k].kind = "reaction"})
    IN steps[last].cumulative_profit = StepProfitSum(steps)

\* C3 witness: an emitted chain of several reaction steps with a profit or
\* loss each, whose final_profit is not the sum
CumulativeProfitWitness ==
  \E c \in 1..Len(chains_raw) :
    LET steps == chains_raw[c].steps
    IN /\ Cardinality({k \in 1..Len(steps) :
                         steps[k].kind = "reaction" /\ steps[k].step_profit # 0}) >= 3
       /\ chains_raw[c].final_profit # StepProfitSum(steps)

\* C4 (as claimed): every capacity the planner computes (initial plans,
\* priced plans, feeder, root and hop steps) is the minimum over the
\* non-fuel requirements of floor(ledger / quantity), 0 without any.
CapacityFormula ==
  /\ \A i \in 1..Len(plans_raw) :
        plans_raw[i].runs
          = CapacityOf(plans_raw[i].before, plans_raw[i].per_run_requirements)
  /\ \A i \in 1..Len(priced_plans) :
        priced_plans[i].runs
          = CapacityOf(heap["stock"], priced_plans[i].per_run_requirements)
  /\ \A s \in ReactionSteps :
        s.runs = CapacityOf([t \in Types |-> s.before[t] + s.supply[t]], s.need_per_run)

\* a step whose requirements the ledger alone covers
Covered(s) ==
  /\ Keys(s.supply) = {}
  /\ \A m \in Types : s.before[m] >= s.runs * s.need_per_run[m]

\* C5: a recipe run r times on a ledger that covers it takes r * q of every
\* requirement, adds r * out of every product and leaves the rest; with
\* {Alpha: 100} and 10 Alpha -> 5 Beta the capacity is 10 with nothing
\* missing, and the ledger becomes Alpha 0, Beta 50.
ExecutionEffect ==
  /\ \A s \in ReactionSteps :
        Covered(s) =>
          \A t \in Types :
            s.after[t] = s.before[t] - s.runs * s.need_per_run[t]
                         + s.runs * s.out_per_run[t]
  /\ \A i \in 1..Len(plans_raw) :
        LET p == plans_raw[i]
        IN /\ p.runs > 0 =>
                \A t \in Types :
                  p.after[t] = p.before[t] - p.runs * p.per_run_requirements[t]
                               + p.runs * p.per_run_products[t]
           /\ (/\ p.per_run_requirements = Qty({<<Alpha, 10>>})
               /\ p.per_run_products = Qty({<<Beta, 5>>})
               /\ p.before = Qty({<<Alpha, 100>>}))
                => /\ p.runs = 10
                   /\ p.missing = Empty
                   /\ p.after = Qty({<<Beta, 50>>})
  /\ \A s \in ReactionSteps :
        (/\ s.need_per_run = Qty({<<Alpha, 10>>})
         /\ s.out_per_run = Qty({<<Beta, 5>>})
         /\ s.before = Qty({<<Alpha, 100>>})
         /\ Keys(s.supply) = {})
          => s.runs = 10 /\ s.after = Qty({<<Beta, 50>>})

\* C5 witness: the scenario {Alpha: 100}, 10 Alpha -> 5 Beta was planned
\* with capacity 10 and executed as a step the ledger covers
ExecutionEffectWitness ==
  /\ \E s \in ReactionSteps :
        /\ Covered(s)
        /\ s.need_per_run = Qty({<<Alpha, 10>>})
        /\ s.out_per_run = Qty({<<Beta, 5>>})
        /\ s.before = Qty({<<Alpha, 100>>})
        /\ s.after = Qty({<<Beta, 50>>})
  /\ \E i \in 1..Len(plans_raw) :
        /\ plans_raw[i].per_run_requirements = Qty({<<Alpha, 10>>})
        /\ plans_raw[i].before = Qty({<<Alpha, 100>>})
        /\ plans_raw[i].runs = 10

\* C6: no candidate changes the initial ledger of the request, every
\* candidate starts from a copy equal to it, and no ledger a candidate
\* writes to is the initial ledger.
LedgerIndependence ==
  /\ heap["stock"] = stock_in
  /\ \A v \in DOMAIN obj : obj[v] # "stock"
  /\ (pc = "feeders" /\ fi = 0)
       => heap[obj.cur] = stock_in /\ heap[obj.cur_after_step1] = stock_in

\* C6 witness: a candidate starts after an earlier one has changed its ledgers
LedgerIndependenceWitness ==
  /\ pc = "feeders"
  /\ fi = 0
  /\ gi >= 2
  /\ heap["cur2"] # stock_in
  /\ heap["cur2"] # Empty

\* C7: no blueprint id is the root of two chains of one request.
RootUniqueness ==
  \A i, j \in 1..Len(chains_raw) :
    i # j => chains_raw[i].root # chains_raw[j].root

\* C7 witness: several chains were emitted
RootUniquenessWitness == Len(chains_raw) >= 3

\* C8: a chain holds at most 4 production steps (root and forward hops).
DepthBound ==
  \A steps \in ChainSeqs : Cardinality(ProductionIdx(steps)) <= 4

\* C8 witness: an emitted chain with 4 production steps
DepthBoundWitness ==
  \E c \in 1..Len(chains_raw) :
    Cardinality(ProductionIdx(chains_raw[c].steps)) = 4

\* C9 (as claimed): at most 50 candidates are evaluated in one request.
CandidateCap == evaluated <= virtual_limit

\* a root that used up all of its input, recovered no more of it than it
\* used, and is followed by a step whose sole requirement is that material
SelfLoopShape(steps) ==
  \E t \in Types :
    LET prod == ProductionIdx(steps)
        k1 == MinOf(prod)
        s1 == steps[k1]
        re == steps[k1 + 1]
        s2 == steps[k1 + 2]
    IN /\ Cardinality(prod) >= 2
       /\ Len(steps) >= k1 + 2
       /\ re.kind = "reprocess"
       /\ s2.kind = "reaction"
       /\ Keys(re.add) = {t}
       /\ NonFuel(Keys(s2.need_per_run)) = {t}
       /\ NonFuel(Keys(s1.need_per_run)) = {t}
       /\ Keys(s1.supply) = {}
       /\ s1.from_stock[t] = s1.before[t]
       /\ s1.from_stock[t] = s1.runs * s1.need_per_run[t]
       /\ re.add[t] <= s1.from_stock[t]

\* C10 (as claimed): no chain holds a second step whose sole required
\* material is the sole refined product of the root when the root used up
\* all of its input and recovered no more of it than it used.
SelfLoopGuard == \A steps \in ChainSeqs : ~SelfLoopShape(steps)

\* C11 (as claimed): a candidate is abandoned only when its root has no
\* capacity: between two candidates, a candidate whose root step ran (with
\* its feeder steps before it) is the chain emitted last, whatever the
\* self-loop guard said about its continuation.
SkipNotAbort ==
  (pc \in {"goal", "sort", "done"} /\ ProductionIdx(rendered) # {})
    => /\ chains_raw # << >>
       /\ chains_raw[Len(chains_raw)].steps = rendered

\* C12: the effective per-run requirement is ceil(base * (100 - bonus) / 100):
\* the least integer not below the exact reduced quantity, hence never
\* below it and never above the base quantity.
CeilingEfficiency ==
  (pc = "returned" /\ result.fn = "apply_me_to_requirements")
    => \A t \in Types :
         LET base_q == call.per_run_requirements[t]
             exact == base_q * (100000 - call.me_pct)
         IN /\ result.out[t] * 100000 >= exact
            /\ (result.out[t] - 1) * 100000 < exact
            /\ result.out[t] <= base_q

\* C12 witness: a requirement of 50 under a bonus of 2.64% was rounded up
\* to 49, above the exact 48.68 and below the base quantity
CeilingEfficiencyWitness ==
  /\ pc = "returned"
  /\ result.fn = "apply_me_to_requirements"
  /\ call.me_pct = 2640
  /\ call.per_run_requirements[Alpha] = 50
  /\ result.out[Alpha] = 49

\* the least number all portion sizes divide
PortionLcm ==
  CHOOSE n \in 1..4000 :
    /\ \A t \in Types : n % EveType[t].portion_size = 0
    /\ \A k \in 1..(n - 1) : \E t \in Types : k % EveType[t].portion_size # 0

\* the exact yield of material t, times 100 * PortionLcm, of the sources src
\* (a set of <<position, source type, quantity, rate in percent>>)
ExactYieldScaled(src, t) ==
  SumOver([x \in src |->
             SumOver([m \in EveType[x[2]].mats |->
                        IF m[1] = t
                        THEN m[2] * x[3] * x[4] * (PortionLcm \div EveType[x[2]].portion_size)
                        ELSE 0],
                     EveType[x[2]].mats)],
          src)

\* the sources of a call: the refine-category items or the unrefined products
CallSources ==
  IF call.fn = "refine_from_inputs"
  THEN {<<i, call.items[i].tid, call.items[i].quantity,
          IF is_unrefined_name(call.items[i].tid)
          THEN call.unrefined_refine_rate ELSE call.refine_rate>> :
          i \in {k \in 1..Len(call.items) : call.items[k].category = "refine"}}
  ELSE {<<u, u, call.produced[u], call.refine_rate>> :
          u \in {t \in Types : call.produced[t] > 0 /\ is_unrefined_name(t)}}

\* C13: the yield credited for a material, when the initial ledger is built
\* and when a product is reprocessed inside a chain, is not above
\* per_portion * (quantity / portion_size) * rate, and a yield of 0 is no
\* entry of the result.
FloorYieldBound ==
  (pc = "returned" /\ result.fn \in {"refine_from_inputs", "reprocess_unrefined_in_stock"})
    => /\ \A t \in Types :
            result.out[t] * 100 * PortionLcm <= ExactYieldScaled(CallSources, t)
       /\ \A t \in result.keys : result.out[t] > 0

\* C13 witness: 50 Ore refined at 50%: 40 Alpha per 100 gives exactly 10,
\* 3 Delta per 100 gives 0.75, which is dropped
FloorYieldBoundWitness ==
  /\ pc = "returned"
  /\ result.fn = "refine_from_inputs"
  /\ call.items = << [tid |-> Ore, quantity |-> 50, category |-> "refine"] >>
  /\ call.refine_rate = 50
  /\ result.out[Alpha] = 10
  /\ result.keys = {Alpha}

\* the normalised lines the parser has taken so far
LinesTaken ==
  IF raw = "" THEN << >>
  ELSE [k \in 1..line_no |-> normalize_line(line_split(raw)[k])]

\* what a line gives to a name: the positive quantities it adds under it
LineGives(line, name) ==
  SumSeq([k \in 1..Len(parse_line(line).adds) |->
            IF /\ clean_name_fragment(parse_line(line).adds[k].name) = name
               /\ parse_line(line).adds[k].qty > 0
            THEN parse_line(line).adds[k].qty ELSE 0])

AddedNames(line) ==
  {clean_name_fragment(parse_line(line).adds[k].name) :
     k \in {j \in 1..Len(parse_line(line).adds) : parse_line(line).adds[j].qty > 0}} \ {""}

RECURSIVE Reverse(_)
Reverse(q) == IF q = << >> THEN << >> ELSE Append(Reverse(Tail(q)), Head(q))

\* C14: the parser holds at most one entry per cleaned name, its quantity is
\* the sum of what the lines add under that name, every name a line adds has
\* an entry, the result does not depend on the order of the lines, and
\* "Tritanium x 100\nTritanium x 50" gives the single entry (Tritanium, 150).
ParserAggregation ==
  /\ \A i, j \in 1..Len(agg) : agg[i].name = agg[j].name => i = j
  /\ \A i \in 1..Len(agg) :
        agg[i].qty = SumSeq([k \in 1..Len(LinesTaken) |->
                               LineGives(LinesTaken[k], agg[i].name)])
  /\ \A k \in 1..Len(LinesTaken) : \A nm \in AddedNames(LinesTaken[k]) :
        \E i \in 1..Len(agg) : agg[i].name = nm
  /\ pc = "parsed" =>
        /\ SeqSet(agg) = SeqSet(parse_lines(Reverse(LinesTaken), 1, << >>))
        /\ raw = "Tritanium x 100\nTritanium x 50"
             => agg = << [name |-> "Tritanium", qty |-> 150] >>

\* C14 witness: the text "Tritanium x 100\nTritanium x 50" was parsed to the
\* single entry (Tritanium, 150)
ParserAggregationWitness ==
  /\ pc = "parsed"
  /\ raw = "Tritanium x 100\nTritanium x 50"
  /\ agg = << [name |-> "Tritanium", qty |-> 150] >>

\* C15 (as claimed): "34,250000" parses to [("34", 250000)] and
\* "Tritanium - 2.5m" parses to [("Tritanium", 2500000)].
ParserScenarios ==
  pc = "parsed" =>
    /\ raw = "34,250000" => agg = << [name |-> "34", qty |-> 250000] >>
    /\ raw = "Tritanium - 2.5m" => agg = << [name |-> "Tritanium", qty |-> 2500000] >>

\* a line that is a bare name: no digit, no sign, no separator in it
BareName(line) ==
  /\ line # ""
  /\ \A i \in 1..Len(line) :
        Ch(line, i) \notin Digits \cup {",", ".", "_", "+", "-", ":", "|", " ", "\"", "'"}

\* C16 (as claimed): a line that matches none of the quantity grammars, a
\* bare name in particular, yields the entry (cleaned whole line, 1) and is
\* not dropped.
ParserFallback ==
  \A k \in 1..Len(LinesTaken) :
    (BareName(LinesTaken[k])
     /\ parse_line(LinesTaken[k]).branch \in {"last_number", "whole_line"})
      => \E i \in 1..Len(agg) :
           agg[i].name = clean_name_fragment(LinesTaken[k]) /\ agg[i].qty >= 1

\* the lookup for the item of read i has failed at that read or before it
LookupFailedBy(i) ==
  \E j \in 1..i :
    /\ price_reads[j].tid = price_reads[i].tid
    /\ price_reads[j].failed

\* C17 (as claimed): when the price lookup for an item fails, every price the
\* request uses for that item is 0, no read raises, and the request is not
\* aborted.
PriceFailureZero ==
  /\ pc # "aborted"
  /\ \A i \in 1..Len(price_reads) :
        LookupFailedBy(i) => (~price_reads[i].raised /\ price_reads[i].value = 0)

FeedCount(kinds) == Cardinality({k \in 1..Len(feed) : feed[k].kind \in kinds})

\* C18 (as claimed): no malformed line aborts the batch; at the end every
\* malformed line was counted as an error and every well-formed line of the
\* feed is imported.
ImportTolerance ==
  /\ pc # "crashed"
  /\ pc = "imported" =>
        /\ errors = FeedCount(MalformedKinds)
        /\ imported = FeedCount({"good"})
        /\ rows = {feed[k].bp : k \in {j \in 1..Len(feed) : feed[j].kind = "good"}}

\* the positions of the resolved items that fall in some category
KeptItems ==
  {k \in 1..Len(resolved) :
     \/ EveType[resolved[k].tid].fuel_block
     \/ resolved[k].tid \in reaction_mat_ids
     \/ EveType[resolved[k].tid].mats # {}}

\* C19: the categorized set holds, in order, the resolved items that are a
\* fuel block, a recipe requirement or refinable; a fuel block is fuel
\* whatever else it is, a requirement that is no fuel block is material even
\* when refinable, only the rest is refine, and only refine items are refined.
CategorizationOrder ==
  pc \in {"categorized", "built", "handed"} =>
    /\ Len(categorized) = Cardinality(KeptItems)
    /\ \A j \in 1..Len(categorized) :
         LET src == resolved[SetToSeq(KeptItems)[j]]
             fuel == EveType[src.tid].fuel_block
             req == src.tid \in reaction_mat_ids
         IN /\ categorized[j].tid = src.tid
            /\ categorized[j].quantity = src.quantity
            /\ categorized[j].category =
                 (IF fuel THEN "fuel" ELSE IF req THEN "material" ELSE "refine")
    /\ \A c \in refine_credits(categorized, call.refine_rate, call.unrefined_refine_rate) :
         /\ ~EveType[categorized[c[1]].tid].fuel_block
         /\ categorized[c[1]].tid \notin reaction_mat_ids

\* C19 witness: a refinable requirement was categorized as material and a
\* refinable fuel block that is a requirement as fuel
CategorizationOrderWitness ==
  /\ pc = "categorized"
  /\ {UnrefinedBeta, NitrogenFuelBlock} \subseteq reaction_mat_ids
  /\ \E j \in 1..Len(categorized) :
       categorized[j].tid = UnrefinedBeta /\ categorized[j].category = "material"
  /\ \E j \in 1..Len(categorized) :
       categorized[j].tid = NitrogenFuelBlock /\ categorized[j].category = "fuel"

\* C20 (as claimed): the ledger handed to the planner holds for every type
\* its refine yields plus the input quantity of its material and fuel items,
\* and nothing else.
InitialLedger ==
  pc = "handed" =>
    \A t \in Types :
      stock_in[t] =
        refine_from_inputs(categorized, call.refine_rate,
                           call.unrefined_refine_rate).refined[t]
        + SumSeq([k \in 1..Len(categorized) |->
                    IF categorized[k].tid = t
                       /\ categorized[k].category \in {"material", "fuel"}
                    THEN categorized[k].quantity ELSE 0])

\* a recipe some non-fuel requirement of which the initial ledger holds
HoldsNonFuelRequirement(i) ==
  \E t \in Types :
    priced_plans[i].per_run_requirements[t] > 0 /\ ~is_fuel_id(t) /\ stock_in[t] > 0

\* a recipe one requirement of which another recipe with positive capacity
\* (the minimum over its non-fuel requirements of floor(ledger / quantity))
\* produces
Feedable(i) ==
  \E c \in 1..Len(priced_plans) :
    /\ c # i
    /\ \E t \in Types :
         priced_plans[i].per_run_requirements[t] > 0
         /\ priced_plans[c].per_run_products[t] > 0
    /\ CapacityOf(stock_in, priced_plans[c].per_run_requirements) > 0

\* C21 (as claimed): a recipe is a root candidate exactly when the initial
\* ledger holds one of its non-fuel requirements or another recipe with
\* positive capacity produces one of its requirements; no other recipe is
\* the root of a chain.
RootSelection ==
  pc \notin {"plan", "price", "roots"} =>
    /\ \A i \in 1..Len(priced_plans) :
         (i \in SeqSet(goal_plans)) <=> (HoldsNonFuelRequirement(i) \/ Feedable(i))
    /\ \A c \in 1..Len(chains_raw) :
         \E i \in 1..Len(priced_plans) :
           /\ priced_plans[i].blueprint_type_id = chains_raw[c].root
           /\ HoldsNonFuelRequirement(i) \/ Feedable(i)

\* what reprocessing the per-run unrefined products of a recipe gives back of
\* a material, each credit rounded down
RecoveredPerRun(plan, t) ==
  SumOver([u \in Types |->
             IF plan.per_run_products[u] > 0 /\ is_unrefined_name(u)
             THEN SumOver([m \in EveType[u].mats |->
                             IF m[1] = t
                             THEN RefineYield(m[2], plan.per_run_products[u],
                                              EveType[u].portion_size, RefineRate)
                             ELSE 0],
                          EveType[u].mats)
             ELSE 0],
          Types)

\* C22 (as claimed): the loss a recipe is ranked by is the sum over all its
\* required materials of max(required - recovered, 0), recovered being 0 for
\* a material its own unrefined products do not give back.
SelfRecoveryLossFormula ==
  pc \notin {"plan", "price", "roots"} =>
    \A i \in 1..Len(priced_plans) :
      RankKey(priced_plans[i], cfg).loss =
        SumOver([t \in Types |->
                   IF priced_plans[i].per_run_requirements[t] > 0
                   THEN Max2(priced_plans[i].per_run_requirements[t]
                             - RecoveredPerRun(priced_plans[i], t), 0)
                   ELSE 0],
                Types)

\* the plans that pass the deep guard when it is given the plan of the step
\* executed last as previous plan
PassPreviousStepGuard ==
  {i \in 1..Len(priced_plans) :
     passes_self_loop_guard_deep(priced_plans[i], hop.refined_add,
                                 priced_plans[hop.prev], heap[obj.cur_stock])}

\* the plans that pass the deep guard as the loop calls it
PassGuardAsCalled ==
  {i \in 1..Len(priced_plans) :
     passes_self_loop_guard_deep(
       priced_plans[i], hop.refined_add,
       IF hop.depth = 2 THEN priced_plans[hop.p2] ELSE priced_plans[i],
       heap[obj.cur_stock])}

\* C23 (as claimed): at every hop after the second production step the
\* guard judges each candidate against the requirements of the step executed
\* immediately before and the refined materials recovered from that step.
GuardUsesPreviousStep ==
  (pc = "deep" /\ while_depth(hop.depth)) => PassGuardAsCalled = PassPreviousStepGuard

\* the recipes that consume a non-fuel material of the allowed input set,
\* have no product whose refined partner the ledger holds, and have positive
\* capacity (the minimum over the non-fuel requirements of floor(ledger /
\* quantity)) on the ledger
HopCandidates(ledger) ==
  {i \in 1..Len(priced_plans) :
     /\ consumes_any_of(priced_plans[i], hop.allowed)
     /\ ~has_refined_already(priced_plans[i], ledger)
     /\ CapacityOf(ledger, priced_plans[i].per_run_requirements) > 0}

\* the recipe a hop executes is the first of the candidates with the least
\* (produces-unrefined, loss) key
HopChoice(chosen, ledger) ==
  chosen # 0 =>
    /\ chosen \in HopCandidates(ledger)
    /\ chosen = BestOf(HopCandidates(ledger), RankKeys(priced_plans, cfg))

\* C24 (as claimed): the recipe executed at a forward hop consumes an allowed
\* input, has no product with a refined partner in the ledger, has positive
\* capacity, and is the first recipe with the least key among the recipes
\* with these three properties.
NextHopChoice ==
  /\ pc = "step2" =>
       HopChoice(BestOf(Step2Eligible, RankKeys(priced_plans, cfg)),
                 heap[obj.cur_after_step1])
  /\ (pc = "deep" /\ while_depth(hop.depth)) =>
       HopChoice(BestOf(DeepEligible, RankKeys(priced_plans, cfg)),
                 heap[obj.cur_stock])

\* C25: a step that needs r * q of a material takes min(supply, r * q) of it
\* from the supplemental supply and min(ledger, r * q - from supply) from the
\* ledger, so the ledger is debited only when the supply of the material is
\* used up, and by exactly what is taken from it.
SupplyBeforeStock ==
  \A s \in ReactionSteps :
    \A m \in Types :
      s.need_per_run[m] > 0 =>
        /\ s.from_children[m] = Min2(s.supply[m], s.runs * s.need_per_run[m])
        /\ s.from_stock[m]
             = Min2(s.before[m], s.runs * s.need_per_run[m] - s.from_children[m])
        /\ s.from_stock[m] > 0 => s.from_children[m] = s.supply[m]
        /\ s.after[m] = s.before[m] - s.from_stock[m] + s.runs * s.out_per_run[m]

\* C25 witness: a root step that used up the feeder supply of a material and
\* took the rest from the ledger
SupplyBeforeStockWitness ==
  \E s \in ReactionSteps :
    \E m \in Types :
      /\ ~s.is_feeder
      /\ s.children # << >>
      /\ s.supply[m] > 0
      /\ s.from_children[m] = s.supply[m]
      /\ s.from_stock[m] > 0
      /\ s.from_stock[m] < s.before[m]

\* the root step of a chain: its first production step
RootStep(steps) == steps[MinOf(ProductionIdx(steps))]

\* C26 (as claimed): every emitted chain holds a root step of the chain's
\* root recipe, the capacity of that root against ledger plus supplemental
\* supply was not 0, and the root and every other reaction step of the chain
\* ran at least once.
ZeroCapacityAbandons ==
  \A c \in 1..Len(chains_raw) :
    LET steps == chains_raw[c].steps
    IN /\ ProductionIdx(steps) # {}
       /\ RootStep(steps).blueprint_type_id = chains_raw[c].root
       /\ \A k \in 1..Len(steps) : steps[k].kind = "reaction" => steps[k].runs >= 1
       /\ CapacityOf([t \in Types |-> RootStep(steps).before[t] + RootStep(steps).supply[t]],
                     RootStep(steps).need_per_run) > 0

FeederIdx(steps) == {k \in 1..Len(steps) : steps[k].kind = "reaction" /\ steps[k].is_feeder}

\* C27: in every chain, emitted or under construction, at most 2 feeder
\* recipes are executed, all of them before the root step; each is a recipe
\* other than the root whose products include a non-fuel requirement of the
\* root; and the children of the root step are exactly the feeder steps with
\* their reprocess steps.
FeederBound ==
  \A steps \in ChainSeqs :
    ProductionIdx(steps) # {} =>
      LET r == MinOf(ProductionIdx(steps))
      IN /\ Cardinality(FeederIdx(steps)) <= 2
         /\ \A k \in 1..Len(steps) : steps[k].is_feeder <=> k < r
         /\ \A k \in FeederIdx(steps) :
              /\ steps[k].blueprint_type_id # steps[r].blueprint_type_id
              /\ \E t \in Types : /\ steps[k].out_per_run[t] > 0
                                  /\ steps[r].need_per_run[t] > 0
                                  /\ ~is_fuel_id(t)
         /\ steps[r].children = SubSeq(steps, 1, r - 1)

\* C27 witness: a chain was emitted whose root has three recipes feeding it in
\* the catalog; two of them ran before the root and are its children.
FeederBoundWitness ==
  \E c \in 1..Len(chains_raw) :
    LET steps == chains_raw[c].steps
        r == MinOf(ProductionIdx(steps))
    IN /\ Cardinality(FeederIdx(steps)) = 2
       /\ Len(steps[r].children) >= 2
       /\ Cardinality({i \in 1..Len(priced_plans) :
                         /\ priced_plans[i].blueprint_type_id # steps[r].blueprint_type_id
                         /\ \E t \in Types : /\ priced_plans[i].per_run_products[t] > 0
                                             /\ steps[r].need_per_run[t] > 0
                                             /\ ~is_fuel_id(t)}) = 3

\* what the feeder steps run so far did to material t
FeederSum(f(_)) == SumOver([k \in 1..Len(feeder_steps_for_parent) |-> f(feeder_steps_for_parent[k])], 1..Len(feeder_steps_for_parent))
FeederProduced(t) == LET q(s) == IF s.kind = "reaction" THEN s.runs * s.out_per_run[t] ELSE 0 IN FeederSum(q)
FeederConsumed(t) == LET q(s) == IF s.kind = "reaction" THEN s.from_stock[t] ELSE 0 IN FeederSum(q)
FeederRefinedAway(t) == LET q(s) == IF s.kind = "reprocess" THEN s.used[t] ELSE 0 IN FeederSum(q)
FeederRecovered(t) == LET q(s) == IF s.kind = "reprocess" THEN s.add[t] ELSE 0 IN FeederSum(q)

\* C28: while and after the feeders of a candidate run, every unit a feeder
\* produced is in one place: for every material, chain ledger plus supply is
\* the pre-feeder ledger, less what the feeders consumed and what was refined
\* away, plus what they produced and recovered; it never exceeds the
\* pre-feeder ledger plus what was produced or recovered.
NoDoubleCounting ==
  pc = "feeders" =>
    \A t \in Types :
      LET available == heap[obj.cur_after_step1][t] + feeder_supply[t]
      IN /\ available = heap["stock"][t] - FeederConsumed(t) - FeederRefinedAway(t)
                          + FeederProduced(t) + FeederRecovered(t)
         /\ available <= heap["stock"][t] + FeederProduced(t) + FeederRecovered(t)
         /\ feeder_supply[t] <= FeederProduced(t) + FeederRecovered(t)

\* C28 witness: the feeders are done; one moved its raw output to the supply,
\* or one had its intermediate output refined into the supply, while the
\* ledger still holds the same material.
NoDoubleCountingWitness ==
  /\ pc = "feeders"
  /\ fi = Len(feeders)
  /\ \E k \in 1..Len(feeder_steps_for_parent) : feeder_steps_for_parent[k].kind = "reprocess"
  /\ \E t \in Types : feeder_supply[t] > 0 /\ heap[obj.cur_after_step1][t] > 0

\* C29 (as claimed): for every reaction step, the reported produced quantity
\* is runs * per-run product quantity summed over the products, the amount the
\* step adds to the ledger, and the gross value the step profit is computed
\* from is the value of that amount.
ReportedOutputMatchesLedger ==
  \A s \in ReactionSteps :
    /\ s.produced_qty = SumOver([t \in Types |-> s.runs * s.out_per_run[t]], Types)
    /\ s.produced_value
         = SumOver([t \in Types |->
                      price_output(t, cfg.output_basis) * (s.runs * s.out_per_run[t]) * 100000],
                   Types)

\* the recipes of the production steps of a chain, in order of execution
ProductionRecipes(steps) == [k \in ProductionIdx(steps) |-> steps[k].blueprint_type_id]

\* C30 (as claimed): among the production steps of one chain no recipe is
\* executed twice: two different production steps have different recipes.
NoRepeatedRecipe ==
  \A steps \in ChainSeqs :
    \A j, k \in ProductionIdx(steps) :
      j # k => ProductionRecipes(steps)[j] # ProductionRecipes(steps)[k]

====
